---- MODULE Spec2Model ----
(***************************************************************************)
(* A model of the StateManager, the DOMRenderer and the ComponentManager   *)
(* of Juris 0.8.1 (src/lib/juris.0.8.1.js).                                *)
(*                                                                         *)
(* The program is single threaded: every public call (setState, endBatch,  *)
(* subscribe, render, ...) runs to completion, including the middleware and *)
(* subscriber callbacks it invokes and every setState those callbacks      *)
(* issue re-entrantly.  One action of the model is one such call made by   *)
(* application code; the re-entrant calls are part of the action and are   *)
(* computed by the recursive operators below.                              *)
(*                                                                         *)
(* Strings are sequences of one-character strings, so that split, join,    *)
(* trim, includes and startsWith are computed as the code computes them.   *)
(***************************************************************************)
EXTENDS Naturals, Sequences, FiniteSets, TLC

VARIABLES
    state,                \* this.state: the state tree
    middleware,           \* this.middleware
    subscribers,          \* this.subscribers: Map path -> Set(callback)
    externalSubscribers,  \* this.externalSubscribers: Map path -> Set({callback, hierarchical})
    currentTracking,      \* this.currentTracking: null or a Set of paths
    isUpdating,           \* this.isUpdating
    currentlyUpdating,    \* this.currentlyUpdating: Set of paths
    isBatching,           \* this.isBatching
    batchQueue,           \* this.batchQueue
    batchedPaths,         \* this.batchedPaths
    renderer,             \* the DOMRenderer: its elements, maps and closures
    components,           \* the ComponentManager: its maps and the promises it waits for
    batches,              \* the thenables executeBatch waits for, and what its caller received
    initialState,         \* this.initialState: the clone the constructor took
    given,                \* the initialState argument the constructor was called with
    tracker,              \* the closure of createPromisify, with the promises and the event loop
    asyncDom,             \* the elements with thenable properties, asyncCache and the pending resolutions
    lifecycle,            \* the lifecycle components: this.instances and the mount timers
    app,                  \* the application that drives the manager (fixed at construction)
    held,                 \* the elements render returned that the application has not cleaned up
    op,                   \* history: the last call made by application code
    calls,                \* history: the callbacks that call invoked, in order
    thrown                \* history: whether that call threw to its caller

vars == <<state, middleware, subscribers, externalSubscribers, currentTracking,
          isUpdating, currentlyUpdating, isBatching, batchQueue, batchedPaths,
          renderer, components, batches, initialState, given, tracker, asyncDom,
          lifecycle, app, held, op, calls, thrown>>

-----------------------------------------------------------------------------
(* Bounds of the model *)

\* the most user callbacks (middleware and subscriptions together) an application installs
MaxCallbacks == 2
\* the most entries a batch queue is let grow to
MaxQueue == 2
\* the depth of nested setState calls at which the engine's call stack is exhausted
StackLimit == 3
\* the most elements a page is let grow to
MaxNodes == 6
\* the most reactive bindings a page is let grow to
MaxBindings == 1
\* the most component instances an application makes
MaxInstances == 2
\* the most closures the renderer makes for the items of a list
MaxClosures == 3
\* the most thenables executeBatch is let wait for at a time
MaxPending == 2
\* the most promises that pass through promisify
MaxPromises == 3
\* the most timers that wait at a time
MaxTimers == 2
\* the most elements rendered with thenable properties
MaxElements == 3
\* the most runs of the function of a reactive text
MaxRuns == 3

-----------------------------------------------------------------------------
(* JavaScript strings *)

P_x == <<"x">>
P_a == <<"a">>
P_ab == <<"a", ".", "b">>
P_ac == <<"a", ".", "c">>
P_abc == <<"a", ".", "b", ".", "c">>
P_dotdot == <<"a", ".", ".", "b">>
P_blank == <<" ">>
P_dot == <<".">>
P_f == <<"f">>
P_b == <<"b">>
P_l == <<"l">>

RECURSIVE TrimStart(_)
TrimStart(s) ==
    IF s # <<>> /\ Head(s) = " " THEN TrimStart(Tail(s)) ELSE s

RECURSIVE TrimEnd(_)
TrimEnd(s) ==
    IF s # <<>> /\ s[Len(s)] = " " THEN TrimEnd(SubSeq(s, 1, Len(s) - 1)) ELSE s

Trim(s) == TrimEnd(TrimStart(s))

Includes(s, t) ==
    \E i \in 0..(Len(s) - Len(t)) : SubSeq(s, i + 1, i + Len(t)) = t

StartsWith(s, t) ==
    Len(t) <= Len(s) /\ SubSeq(s, 1, Len(t)) = t

\* s.split('.'): the pieces between the dots, empty pieces included
RECURSIVE SplitDots(_, _)
SplitDots(s, piece) ==
    IF s = <<>> THEN <<piece>>
    ELSE IF Head(s) = "." THEN <<piece>> \o SplitDots(Tail(s), <<>>)
    ELSE SplitDots(Tail(s), Append(piece, Head(s)))

\* parts.join('.')
RECURSIVE Join(_)
Join(parts) ==
    IF parts = <<>> THEN <<>>
    ELSE IF Len(parts) = 1 THEN parts[1]
    ELSE parts[1] \o <<".">> \o Join(Tail(parts))

RECURSIVE FilterNonEmpty(_)
FilterNonEmpty(pieces) ==
    IF pieces = <<>> THEN <<>>
    ELSE IF Head(pieces) = <<>> THEN FilterNonEmpty(Tail(pieces))
    ELSE <<Head(pieces)>> \o FilterNonEmpty(Tail(pieces))

\* a test that lets a path with ".." through
isValidPath_lax(path) == Len(Trim(path)) > 0

isValidPath(path) ==
    /\ Len(Trim(path)) > 0
    /\ ~Includes(path, <<".", ".">>)

getPathParts(path) == FilterNonEmpty(SplitDots(path, <<>>))

-----------------------------------------------------------------------------
(* JavaScript values                                                       *)
(* A value is a function from relative positions (sequences of keys) to    *)
(* tags; the position <<>> is the value itself.  A scalar has only that    *)
(* position; an object ("obj") has one position per own key, recursively.  *)
(* A key that holds undefined is present with the tag "undef".             *)

V(tag) == (<<>> :> tag)

Undefined == V("undef")
Null == V("null")
NaN == V("nan")
N1 == V("n1")
N2 == V("n2")
EmptyObj == V("obj")
ObjC1 == (<<>> :> "obj") @@ (<< <<"c">> >> :> "n1")

Tag(v) == v[<<>>]

IsPrefix(n, m) == Len(n) <= Len(m) /\ SubSeq(m, 1, Len(n)) = n

\* the own keys of an object value
Keys(v) == { n[1] : n \in { k \in DOMAIN v : Len(k) = 1 } }

\* the value found at position n of v
Sub(v, n) ==
    [ s \in { SubSeq(k, Len(n) + 1, Len(k)) : k \in { j \in DOMAIN v : IsPrefix(n, j) } }
        |-> v[n \o s] ]

\* v with the value w placed at position n (whatever was at or below n is replaced)
Graft(v, n, w) ==
    [ k \in { j \in DOMAIN v : ~IsPrefix(n, j) } \cup { n \o s : s \in DOMAIN w }
        |-> IF IsPrefix(n, k) THEN w[SubSeq(k, Len(n) + 1, Len(k))] ELSE v[k] ]

RECURSIVE deepEquals(_, _)
deepEquals(a, b) ==
    IF Tag(a) # "obj" \/ Tag(b) # "obj"
    THEN \* a === b for primitives (NaN is not equal to itself); every other
         \* mix of null, undefined, primitives and objects is unequal
         Tag(a) = Tag(b) /\ Tag(a) \notin {"nan", "obj"}
    ELSE /\ Cardinality(Keys(a)) = Cardinality(Keys(b))
         /\ \A key \in Keys(a) :
                key \in Keys(b) /\ deepEquals(Sub(a, <<key>>), Sub(b, <<key>>))

\* the traversal of getState: the value at parts, or defaultValue when a
\* segment on the way is undefined
RECURSIVE Lookup(_, _, _, _)
Lookup(tree, parts, i, defaultValue) ==
    IF i > Len(parts) THEN Sub(tree, parts)
    ELSE LET node == SubSeq(parts, 1, i)
         IN  IF node \notin DOMAIN tree \/ tree[node] = "undef"
             THEN defaultValue
             ELSE Lookup(tree, parts, i + 1, defaultValue)

\* the traversal of a write: every segment before the last that is missing,
\* null or not an object is replaced by a fresh record
RECURSIVE MakeWay(_, _, _)
MakeWay(tree, parts, i) ==
    IF i > Len(parts) - 1 THEN tree
    ELSE LET node == SubSeq(parts, 1, i)
         IN  IF node \notin DOMAIN tree \/ tree[node] # "obj"
             THEN MakeWay(Graft(tree, node, EmptyObj), parts, i + 1)
             ELSE MakeWay(tree, parts, i + 1)

\* String(undefined), the key that current[parts[parts.length - 1]] names
\* when parts is empty
UndefinedKey == <<"u", "n", "d", "e", "f", "i", "n", "e", "d">>

WriteTree(tree, parts, value) ==
    IF parts = <<>>
    THEN Graft(tree, <<UndefinedKey>>, value)
    ELSE Graft(MakeWay(tree, parts, 1), parts, value)

\* JSON.parse(JSON.stringify(v)) of an object v: a key that holds undefined
\* is left out, NaN becomes null
JSONClone(v) ==
    [ k \in { j \in DOMAIN v : v[j] # "undef" } |-> IF v[k] = "nan" THEN "null" ELSE v[k] ]

-----------------------------------------------------------------------------
(* Application code: the callbacks handed to the manager                   *)

\* subscriber callbacks (reactive bindings and external listeners)
CallbackInputs == {"nop", "boom", "setX", "setB"}

\* middleware functions
MiddlewareFns == {"keep", "toN1", "bump", "boom", "reenter"}

-----------------------------------------------------------------------------
(* The manager while a call runs: the fields of the object, the log of     *)
(* callbacks invoked so far (calls) and whether an exception is            *)
(* propagating (exc).                                                      *)

NoTracking == [active |-> FALSE, paths |-> <<>>]
FreshTracking == [active |-> TRUE, paths |-> <<>>]

\* the array with the elements f[1], ..., f[n] (what Array.prototype.map returns)
Array(f) == SubSeq(f, 1, Len(f))

Raise(m) == [m EXCEPT !.exc = TRUE]
Caught(m) == [m EXCEPT !.exc = FALSE]

Entry(kind, cb, hierarchical, via, changed, val, old, d, tree) ==
    [kind |-> kind, cb |-> cb, hierarchical |-> hierarchical, via |-> via,
     changed |-> changed, val |-> val, old |-> old, depth |-> d, tree |-> tree]

Log(m, e) == [m EXCEPT !.calls = Append(@, e)]

\* Map.has / Map.get on a Map kept as the sequence of its entries, in insertion order
MapHas(map, path) == \E i \in 1..Len(map) : map[i].path = path

MapGet(map, path) ==
    IF MapHas(map, path)
    THEN map[CHOOSE i \in 1..Len(map) : map[i].path = path].subs
    ELSE <<>>

MapKeys(map) == [i \in 1..Len(map) |-> map[i].path]

SeqHas(seq, x) == \E i \in 1..Len(seq) : seq[i] = x

\* new Set([...]): the elements in order of first occurrence
RECURSIVE Dedupe(_)
Dedupe(seq) ==
    IF seq = <<>> THEN <<>>
    ELSE LET rest == Dedupe(SubSeq(seq, 1, Len(seq) - 1))
             last == seq[Len(seq)]
         IN  IF SeqHas(rest, last) THEN rest ELSE Append(rest, last)

\* this.currentTracking?.add(path)
Track(m, path) ==
    IF m.currentTracking.active /\ ~SeqHas(m.currentTracking.paths, path)
    THEN [m EXCEPT !.currentTracking.paths = Append(@, path)]
    ELSE m

\* getState(path, defaultValue, track): the value returned ...
getState(tree, path, defaultValue) ==
    IF ~isValidPath(path) THEN defaultValue
    ELSE Lookup(tree, getPathParts(path), 1, defaultValue)

\* ... and its effect on the tracking scope
getStateTrack(m, path, track) ==
    IF isValidPath(path) /\ track THEN Track(m, path) ELSE m

subscribeInternal(m, path, callback) ==
    LET map == IF MapHas(m.subscribers, path) THEN m.subscribers
               ELSE Append(m.subscribers, [path |-> path, subs |-> <<>>])
    IN  [m EXCEPT !.subscribers =
            Array([i \in 1..Len(map) |->
                      IF map[i].path = path /\ ~SeqHas(map[i].subs, callback)
                      THEN [map[i] EXCEPT !.subs = Append(@, callback)]
                      ELSE map[i]])]

subscribe(m, path, callback, hierarchical) ==
    LET map == IF MapHas(m.externalSubscribers, path) THEN m.externalSubscribers
               ELSE Append(m.externalSubscribers, [path |-> path, subs |-> <<>>])
        subscription == [callback |-> callback, hierarchical |-> hierarchical]
    IN  [m EXCEPT !.externalSubscribers =
            Array([i \in 1..Len(map) |->
                      IF map[i].path = path
                      THEN [map[i] EXCEPT !.subs = Append(@, subscription)]
                      ELSE map[i]])]

subscribeExact(m, path, callback) == subscribe(m, path, callback, FALSE)

hasCircularUpdate(m, path) == path \in m.currentlyUpdating

\* a queueing that also applies the write at once
queueBatchedUpdate_applies(m, path, value) ==
    [m EXCEPT !.batchQueue =
                  Append(SelectSeq(@, LAMBDA update : update.path # path),
                         [path |-> path, value |-> value]),
              !.batchedPaths = @ \cup {path},
              !.state = WriteTree(@, getPathParts(path), value)]

queueBatchedUpdate(m, path, value) ==
    [m EXCEPT !.batchQueue =
                  Append(SelectSeq(@, LAMBDA update : update.path # path),
                         [path |-> path, value |-> value]),
              !.batchedPaths = @ \cup {path}]

\* the hierarchical / exact test of _notifyExternalSubscribers
shouldNotify(hierarchical, changedPath, subscribedPath) ==
    IF hierarchical
    THEN changedPath = subscribedPath \/ StartsWith(changedPath, subscribedPath \o <<".">>)
    ELSE changedPath = subscribedPath

\* pathGroups of _processBatchedUpdates: one update per path, in the order the
\* paths were first set, each holding the last update of its path
RECURSIVE pathGroups(_)
pathGroups(updates) ==
    IF updates = <<>> THEN <<>>
    ELSE LET rest == pathGroups(SubSeq(updates, 1, Len(updates) - 1))
             last == updates[Len(updates)]
         IN  IF \E i \in 1..Len(rest) : rest[i].path = last.path
             THEN Array([i \in 1..Len(rest) |->
                            IF rest[i].path = last.path THEN last ELSE rest[i]])
             ELSE Append(rest, last)

\* the prefixes parts.slice(0, i).join('.') for i = 1..parts.length
PrefixPaths(path) ==
    LET parts == getPathParts(path)
    IN  [i \in 1..Len(parts) |-> Join(SubSeq(parts, 1, i))]

RECURSIVE Concat(_)
Concat(seqs) == IF seqs = <<>> THEN <<>> ELSE Head(seqs) \o Concat(Tail(seqs))

\* parentPaths of _processBatchedUpdates
parentPaths(applied) == Dedupe(Concat([i \in 1..Len(applied) |-> PrefixPaths(applied[i])]))

\* every external subscription with the path it is registered on, in iteration order
Subscriptions(map) ==
    Concat([i \in 1..Len(map) |->
        [j \in 1..Len(map[i].subs) |->
            [path |-> map[i].path,
             callback |-> map[i].subs[j].callback,
             hierarchical |-> map[i].subs[j].hierarchical]]])

-----------------------------------------------------------------------------
(* DOMRenderer.  Elements are numbered in the order document.createElement *)
(* made them; m.renderer holds the elements and the renderer's maps, and    *)
(* the closures (updateText, updateChildren) the renderer handed to the     *)
(* state manager as internal subscribers.                                   *)

\* the callback identity of the i-th closure made by the renderer
BindingName(i) == "u" \o ToString(i)

IsBinding(m, callback) ==
    \E i \in 1..Len(m.renderer.bindings) : BindingName(i) = callback

BindingOf(m, callback) ==
    CHOOSE i \in 1..Len(m.renderer.bindings) : BindingName(i) = callback

\* an element description { tag: { key, text, children } }: text and children
\* are absent ("none"), static, or a function of the application ("fn")
NoProp == [kind |-> "none", fn |-> "", val |-> "", list |-> <<>>]
StaticText(s) == [kind |-> "static", fn |-> "", val |-> s, list |-> <<>>]
StaticChildren(l) == [kind |-> "static", fn |-> "", val |-> "", list |-> l]
FnProp(fn) == [kind |-> "fn", fn |-> fn, val |-> "", list |-> <<>>]
Vnode(tag, key, text, children) ==
    [tag |-> tag, key |-> key, text |-> text, children |-> children]
Span(text) == Vnode("span", "", text, NoProp)

\* document.createElement(tagName)
NewNode(tag) == [tag |-> tag, key |-> "", text |-> "", children |-> <<>>, parent |-> 0]

createElement(m, tag) ==
    [m EXCEPT !.renderer.nodes = Append(@, NewNode(tag)),
              !.renderer.subscriptions = Append(@, <<>>)]

\* the element made last
LastElement(m) == Len(m.renderer.nodes)

\* parent.removeChild(child)
removeChild(nodes, child) ==
    IF nodes[child].parent = 0 THEN nodes
    ELSE [nodes EXCEPT ![nodes[child].parent].children = SelectSeq(@, LAMBDA c : c # child),
                       ![child].parent = 0]

\* parent.appendChild(child): the child leaves the parent it had
appendChild(nodes, parent, child) ==
    [removeChild(nodes, child) EXCEPT ![parent].children = Append(@, child),
                                      ![child].parent = parent]

\* parent.appendChild(fragment): the nodes of the fragment, in order
RECURSIVE appendAll(_, _, _, _)
appendAll(nodes, parent, fragment, i) ==
    IF i > Len(fragment) THEN nodes
    ELSE appendAll(appendChild(nodes, parent, fragment[i]), parent, fragment, i + 1)

\* element.textContent = text: the children are removed
setTextContent(nodes, element, text) ==
    Array([k \in 1..Len(nodes) |->
              IF k = element THEN [nodes[k] EXCEPT !.text = text, !.children = <<>>]
              ELSE IF nodes[k].parent = element THEN [nodes[k] EXCEPT !.parent = 0]
              ELSE nodes[k]])

\* the string textContent holds after `element.textContent = value`
ToText(v) ==
    CASE Tag(v) = "n1" -> "1"
      [] Tag(v) = "n2" -> "2"
      [] Tag(v) = "nan" -> "NaN"
      [] Tag(v) = "obj" -> "[object Object]"
      [] OTHER -> ""

\* a !== b
StrictlyDiffers(a, b) == a # b \/ Tag(a) = "nan"

\* the value is truthy
Truthy(v) == Tag(v) \in {"n1", "n2", "obj"}

\* the closure returned by subscribeInternal(path, callback)
unsubscribeInternal(m, path, callback) ==
    [m EXCEPT !.subscribers =
        SelectSeq([i \in 1..Len(@) |->
                      IF @[i].path = path
                      THEN [@[i] EXCEPT !.subs = SelectSeq(@, LAMBDA c : c # callback)]
                      ELSE @[i]],
                  LAMBDA e : e.subs # <<>>)]

\* what a text function of the application does when invoked: the manager
\* after its reads, the value it returns, and whether it threw instead
TextFn(fn, m) ==
    CASE fn = "count" ->
             [m |-> getStateTrack(m, P_x, TRUE), result |-> getState(m.state, P_x, Null),
              threw |-> FALSE]
      [] fn = "cond" ->
             IF Truthy(getState(m.state, P_f, Null))
             THEN [m |-> getStateTrack(getStateTrack(m, P_f, TRUE), P_a, TRUE),
                   result |-> getState(m.state, P_a, Null), threw |-> FALSE]
             ELSE [m |-> getStateTrack(getStateTrack(m, P_f, TRUE), P_b, TRUE),
                   result |-> getState(m.state, P_b, Null), threw |-> FALSE]
      [] fn = "fail" ->
             [m |-> getStateTrack(m, P_x, TRUE), result |-> getState(m.state, P_x, Null),
              threw |-> getState(m.state, P_x, Null) = N2]

\* the closure state of an updateText / updateChildren
Closure(kind, element, fn) ==
    [kind |-> kind, element |-> element, fn |-> fn,
     isInitialized |-> FALSE, lastTextValue |-> Null,
     lastChildren |-> [set |-> FALSE, list |-> <<>>],
     childElements |-> <<>>, useOptimizedPath |-> TRUE]

\* updateText of _handleReactiveText, given what textFn did
updateText(r, b) ==
    LET c == r.m.renderer.bindings[b]
    IN  IF r.threw THEN r.m
        ELSE IF ~c.isInitialized \/ StrictlyDiffers(r.result, c.lastTextValue)
        THEN [r.m EXCEPT !.renderer.nodes = setTextContent(@, c.element, ToText(r.result)),
                         !.renderer.bindings[b].lastTextValue = r.result,
                         !.renderer.bindings[b].isInitialized = TRUE]
        ELSE r.m

\* what a children function of the application does when invoked: the manager
\* after its reads, the descriptions it returns, and whether it threw instead
Li(key, text) == Vnode("li", key, StaticText(text), NoProp)

\* a list item that holds the list again
Nested == Vnode("li", "", NoProp, StaticChildren(<<Vnode("ul", "", NoProp, FnProp("nest"))>>))

ChildrenFn(fn, m) ==
    LET l == getState(m.state, P_l, Null)
    IN  [m |-> getStateTrack(m, P_l, TRUE),
         list |-> CASE fn = "nest" /\ l = N1 -> <<Nested>>
                    [] fn = "nest" /\ l = N2 -> <<Li("a", "1")>>
                    [] fn = "items" /\ l = N1 -> <<Li("a", "1"), Vnode("li", "b", FnProp("count"), NoProp)>>
                    [] fn = "items" /\ l = N2 -> <<Li("a", "1")>>
                    [] fn = "list" /\ l = N1 -> <<Li("a", "1"), Li("b", "2")>>
                    [] fn = "list" /\ l = N2 -> <<Li("b", "2"), Li("a", "1")>>
                    [] fn = "list" /\ l = ObjC1 -> <<Li("a", "1")>>
                    [] OTHER -> <<>>,
         threw |-> l = NaN]

RECURSIVE ConcatStrings(_)
ConcatStrings(strs) == IF strs = <<>> THEN "" ELSE Head(strs) \o ConcatStrings(Tail(strs))

\* JSON.stringify(props) with every function replaced by '[function]'
RECURSIVE PropsJson(_)
PropsJson(vnode) ==
    "{" \o (IF vnode.key # "" THEN "key:" \o vnode.key \o "," ELSE "")
        \o (CASE vnode.text.kind = "static" -> "text:" \o vnode.text.val \o ","
              [] vnode.text.kind = "fn" -> "text:[function],"
              [] OTHER -> "")
        \o (CASE vnode.children.kind = "static" ->
                     "children:[" \o ConcatStrings([i \in 1..Len(vnode.children.list) |->
                                     vnode.children.list[i].tag \o ":"
                                         \o PropsJson(vnode.children.list[i])]) \o "]"
              [] vnode.children.kind = "fn" -> "children:[function]"
              [] OTHER -> "")
        \o "}"

\* _generateKey(tagName, props); the hash is taken to be free of collisions
generateKey(vnode) ==
    IF vnode.key # "" THEN vnode.key
    ELSE vnode.tag
         \o (IF vnode.text.kind = "static" /\ vnode.text.val # ""
             THEN "|text:" \o vnode.text.val ELSE "")
         \o "|hash:" \o PropsJson(vnode)

\* this.elementCache.get(key), 0 when there is none
CacheGet(m, key) ==
    IF \E i \in 1..Len(m.renderer.elementCache) : m.renderer.elementCache[i].key = key
    THEN m.renderer.elementCache[
             CHOOSE i \in 1..Len(m.renderer.elementCache) :
                 m.renderer.elementCache[i].key = key].element
    ELSE 0

\* this.elementCache.set(key, element)
CacheSet(cache, key, element) ==
    IF \E i \in 1..Len(cache) : cache[i].key = key
    THEN Array([i \in 1..Len(cache) |->
                   IF cache[i].key = key THEN [cache[i] EXCEPT !.element = element]
                   ELSE cache[i]])
    ELSE Append(cache, [key |-> key, element |-> element])

\* this.elementCache.delete(key)
CacheDelete(cache, key) == SelectSeq(cache, LAMBDA e : e.key # key)

_canReuseElement(nodes, element, tag) == nodes[element].tag = tag

\* the element, its parent, the parent of that, ...
RECURSIVE AncestorsOrSelf(_, _)
AncestorsOrSelf(nodes, n) ==
    IF n = 0 THEN {} ELSE {n} \cup AncestorsOrSelf(nodes, nodes[n].parent)

\* _wouldCreateCircularReference(parent, child): parent is child or lies below it
_wouldCreateCircularReference(nodes, parent, child) ==
    parent # 0 /\ child # 0 /\ child \in AncestorsOrSelf(nodes, parent)

\* the most elements the recycle pool of a tag holds
RecyclePoolSize == 100

\* _resetElement(element)
_resetElement(nodes, element) == setTextContent(nodes, element, "")

RECURSIVE render(_, _)
RECURSIVE cleanup(_, _)
RECURSIVE cleanupEach(_, _, _)
RECURSIVE renderEach(_, _, _)
RECURSIVE _updateChildren(_, _, _)
RECURSIVE updateFn(_, _)
RECURSIVE _createReactiveUpdate(_, _, _)
RECURSIVE _reconcileChildren(_, _, _, _)
RECURSIVE reconcileEach(_, _, _, _)
RECURSIVE _handleChildren(_, _, _)

\* delete current[last] after walking statePath.split('.') down from the root
\* of the state: nothing is deleted when a segment on the way is missing or
\* falsy
deleteStatePath(tree, statePath) ==
    LET parts == SplitDots(statePath, <<>>)
    IN  IF \A i \in 1..(Len(parts) - 1) :
               /\ SubSeq(parts, 1, i) \in DOMAIN tree
               /\ tree[SubSeq(parts, 1, i)] \in {"n1", "n2", "obj"}
        THEN [k \in {j \in DOMAIN tree : ~IsPrefix(parts, j)} |-> tree[k]]
        ELSE tree

\* states.forEach(statePath => ...) from the i-th path on
RECURSIVE deleteStatePaths(_, _, _)
deleteStatePaths(tree, paths, i) ==
    IF i > Len(paths) THEN tree
    ELSE deleteStatePaths(deleteStatePath(tree, paths[i]), paths, i + 1)

\* this.componentStates.get(element): the number of the Set registered for
\* the element, 0 when there is none
StatesOf(m, element) ==
    IF \E i \in 1..Len(m.components.componentStates) :
           m.components.componentStates[i].element = element
    THEN m.components.componentStates[
             CHOOSE i \in 1..Len(m.components.componentStates) :
                 m.components.componentStates[i].element = element].set
    ELSE 0

\* the states.forEach and this.componentStates.delete(element) of cleanup
deleteStates(m, element, set) ==
    IF set # 0
    THEN [m EXCEPT !.state = deleteStatePaths(@, m.components.sets[set].paths, 1),
                   !.components.componentStates =
                       SelectSeq(@, LAMBDA e : e.element # element)]
    ELSE m

\* ComponentManager.cleanup(element)
componentCleanup(m, element) ==
    [deleteStates(m, element, StatesOf(m, element))
        EXCEPT !.components.asyncPlaceholders = @ \ {element}]

\* data.subscriptions.forEach(unsubscribe => unsubscribe()) from the i-th on
RECURSIVE unsubscribeEach(_, _, _)
unsubscribeEach(m, subscriptions, i) ==
    IF i > Len(subscriptions) THEN m
    ELSE unsubscribeEach(
             unsubscribeInternal(m, subscriptions[i].path, subscriptions[i].callback),
             subscriptions, i + 1)

\* DOMRenderer.cleanup up to the recursion into the children
cleanupElement(m, element) ==
    LET m1 == unsubscribeEach(componentCleanup(m, element),
                              m.renderer.subscriptions[element], 1)
        key == m.renderer.nodes[element].key
    IN  [m1 EXCEPT !.renderer.subscriptions[element] = <<>>,
                   !.renderer.elementCache =
                       IF key # "" THEN CacheDelete(@, key) ELSE @]

cleanup(m, element) ==
    cleanupEach(cleanupElement(m, element), m.renderer.nodes[element].children, 1)

\* forEach(child => this.cleanup(child)) from the i-th child on
cleanupEach(m, children, i) ==
    IF i > Len(children) THEN m
    ELSE cleanupEach(cleanup(m, children[i]), children, i + 1)

\* fragment.appendChild(childElement) for the element render returned, if any
addRendered(fragment, r) ==
    IF r.el # 0 /\ ~r.m.exc
    THEN [m |-> [r.m EXCEPT !.renderer.nodes = removeChild(@, r.el)],
          fragment |-> Append(fragment, r.el)]
    ELSE [m |-> r.m, fragment |-> fragment]

\* children.forEach(child => ...) of _updateChildren from the i-th on, until
\* an exception leaves the loop; a holds the manager and the fragment
renderEach(a, children, i) ==
    IF i > Len(children) \/ a.m.exc THEN a
    ELSE renderEach(addRendered(a.fragment, render(a.m, children[i])), children, i + 1)

\* the end of _updateChildren: element.appendChild(fragment), which the DOM
\* refuses with a HierarchyRequestError when the element lies in the fragment
appendFragment(a, element) ==
    IF a.m.exc THEN a.m
    ELSE IF \E i \in 1..Len(a.fragment) :
                _wouldCreateCircularReference(a.m.renderer.nodes, element, a.fragment[i])
    THEN Raise(a.m)
    ELSE [a.m EXCEPT !.renderer.nodes = appendAll(@, element, a.fragment, 1)]

\* the body of _updateChildren after the old children were cleaned up
clearAndRender(m, element, children) ==
    appendFragment(
        renderEach([m |-> [m EXCEPT !.renderer.nodes = setTextContent(@, element, "")],
                    fragment |-> <<>>],
                   children, 1),
        element)

_updateChildren(m, element, children) ==
    clearAndRender(cleanupEach(m, m.renderer.nodes[element].children, 1), element, children)

\* this.recyclePool.get(tagName): the pooled elements of the tag, oldest first
PoolOf(m, tag) == SelectSeq(m.renderer.recyclePool, LAMBDA e : m.renderer.nodes[e].tag = tag)

\* _recycleElement(element)
_recycleElement(m, element) ==
    LET detached == [m EXCEPT !.renderer.nodes = removeChild(@, element)]
    IN  IF Len(PoolOf(m, m.renderer.nodes[element].tag)) < RecyclePoolSize
        THEN [cleanup(detached, element)
                EXCEPT !.renderer.nodes = _resetElement(@, element),
                       !.renderer.recyclePool = Append(@, element)]
        ELSE detached

\* oldChildrenByKey.forEach(unusedChild => ...) from the i-th old child on
RECURSIVE recycleUnused(_, _, _, _)
recycleUnused(m, unused, usedElements, i) ==
    IF i > Len(unused) THEN m
    ELSE recycleUnused(
             IF unused[i] \in usedElements THEN m ELSE _recycleElement(m, unused[i]),
             unused, usedElements, i + 1)

\* oldChildrenByKey: key -> child, a later child replacing an earlier one of its key
RECURSIVE oldChildrenByKey(_, _)
oldChildrenByKey(nodes, oldChildren) ==
    IF oldChildren = <<>> THEN <<>>
    ELSE LET index == Len(oldChildren) - 1
             child == oldChildren[Len(oldChildren)]
             key == IF nodes[child].key # "" THEN nodes[child].key
                    ELSE "auto-" \o ToString(index)
         IN  CacheSet(oldChildrenByKey(nodes, SubSeq(oldChildren, 1, index)), key, child)

\* the else branch of the loop of _reconcileChildren, given the element render
\* returned: a holds the manager, newChildElements, usedElements, oldChildrenByKey
addNewElement(a, r, parent, key) ==
    IF r.el # 0 /\ ~r.m.exc /\ ~_wouldCreateCircularReference(r.m.renderer.nodes, parent, r.el)
    THEN [a EXCEPT !.m = [r.m EXCEPT !.renderer.nodes =
                                         [removeChild(@, r.el) EXCEPT ![r.el].key = key]],
                   !.els = Append(@, r.el)]
    ELSE [a EXCEPT !.m = r.m]

\* the then branch: the old child of that key is taken over
reuseElement(a, existingElement, key) ==
    [a EXCEPT !.m.renderer.nodes = removeChild(@, existingElement),
              !.els = Append(@, existingElement),
              !.used = @ \cup {existingElement},
              !.byKey = CacheDelete(@, key)]

\* oldChildrenByKey.get(key), 0 when there is none
ByKeyGet(byKey, key) ==
    IF \E i \in 1..Len(byKey) : byKey[i].key = key
    THEN byKey[CHOOSE i \in 1..Len(byKey) : byKey[i].key = key].element
    ELSE 0

\* newChildren.forEach((newChild, index) => ...) from the i-th on
reconcileEach(a, parent, newChildren, i) ==
    IF i > Len(newChildren) \/ a.m.exc THEN a
    ELSE LET key == generateKey(newChildren[i])
             existingElement == ByKeyGet(a.byKey, key)
         IN  reconcileEach(
                 IF /\ existingElement # 0
                    /\ existingElement \notin a.used
                    /\ _canReuseElement(a.m.renderer.nodes, existingElement, newChildren[i].tag)
                    /\ ~_wouldCreateCircularReference(a.m.renderer.nodes, parent, existingElement)
                 THEN reuseElement(a, existingElement, key)
                 ELSE addNewElement(a, render(a.m, newChildren[i]), parent, key),
                 parent, newChildren, i + 1)

\* parent.textContent = '' and the appending of the new children
appendChecked(m, parent, els) ==
    [m EXCEPT !.renderer.nodes =
        appendAll(setTextContent(m.renderer.nodes, parent, ""), parent,
                  SelectSeq(els, LAMBDA child :
                      ~_wouldCreateCircularReference(m.renderer.nodes, parent, child)),
                  1)]

\* the end of _reconcileChildren: the unused old children are recycled, the
\* parent emptied and the fragment appended; when the DOM refuses the fragment
\* because the parent lies in it, the catch block appends the children that
\* pass _wouldCreateCircularReference one by one
finishReconcile(a, parent) ==
    IF a.m.exc THEN [m |-> a.m, els |-> a.els]
    ELSE [m |-> appendChecked(
                    recycleUnused(a.m, [i \in 1..Len(a.byKey) |-> a.byKey[i].element], a.used, 1),
                    parent, a.els),
          els |-> a.els]

\* _reconcileChildren(parent, oldChildren, newChildren): the manager and newChildElements
_reconcileChildren(m, parent, oldChildren, newChildren) ==
    finishReconcile(
        reconcileEach([m |-> m, els |-> <<>>, used |-> {},
                       byKey |-> oldChildrenByKey(m.renderer.nodes, oldChildren)],
                      parent, newChildren, 1),
        parent)

\* childElements and lastChildrenState after a reconciliation (the closure
\* variables are left alone when it threw)
storeReconciled(r, b, children) ==
    IF r.m.exc THEN r.m
    ELSE [r.m EXCEPT !.renderer.bindings[b].childElements = r.els,
                     !.renderer.bindings[b].lastChildren = [set |-> TRUE, list |-> children]]

\* lastChildrenResult / lastChildrenState and isInitialized after _updateChildren
storeUpdated(m, b, children) ==
    IF m.exc THEN m
    ELSE [m EXCEPT !.renderer.bindings[b].lastChildren = [set |-> TRUE, list |-> children],
                   !.renderer.bindings[b].isInitialized = TRUE]

\* the outer catch block of updateChildren: the children are cleared
clearChildren(m, b) ==
    Caught(_updateChildren([m EXCEPT !.renderer.bindings[b].useOptimizedPath = FALSE],
                           m.renderer.bindings[b].element, <<>>))

\* the outer try / catch of updateChildren of _handleChildrenOptimized
clearIfThrown(m, b) == IF m.exc THEN clearChildren(Caught(m), b) ELSE m

\* updateChildren of _handleReactiveChildren, given what childrenFn did
updateChildrenFineGrained(r, b) ==
    LET c == r.m.renderer.bindings[b]
    IN  IF r.threw THEN r.m
        ELSE IF ~c.isInitialized \/ c.lastChildren.list # r.list
        THEN Caught(storeUpdated(_updateChildren(r.m, c.element, r.list), b, r.list))
        ELSE r.m

\* lastChildrenState after the safe rendering of _handleChildrenOptimized
storeLast(m, b, children) ==
    IF m.exc THEN m
    ELSE [m EXCEPT !.renderer.bindings[b].lastChildren = [set |-> TRUE, list |-> children]]

\* the try / catch around _reconcileChildren in updateChildren: when it threw,
\* the closure falls back to _updateChildren for good
reconcileOrFallback(r, b, element, children) ==
    IF r.m.exc
    THEN storeLast(_updateChildren([Caught(r.m) EXCEPT !.renderer.bindings[b].useOptimizedPath = FALSE],
                                   element, children),
                   b, children)
    ELSE storeReconciled(r, b, children)

\* updateChildren of _handleChildrenOptimized, given what children() did
updateChildrenOptimized(r, b) ==
    LET c == r.m.renderer.bindings[b]
    IN  IF r.threw THEN clearChildren(r.m, b)
        ELSE IF c.lastChildren.set /\ c.lastChildren.list = r.list THEN r.m
        ELSE IF c.useOptimizedPath
        THEN clearIfThrown(
                 reconcileOrFallback(_reconcileChildren(r.m, c.element, c.childElements, r.list),
                                     b, c.element, r.list),
                 b)
        ELSE clearIfThrown(storeLast(_updateChildren(r.m, c.element, r.list), b, r.list), b)

\* the closure handed to subscribeInternal
updateFn(m, b) ==
    CASE m.renderer.bindings[b].kind = "text" ->
             updateText(TextFn(m.renderer.bindings[b].fn, m), b)
      [] m.renderer.bindings[b].kind = "children" ->
             updateChildrenFineGrained(ChildrenFn(m.renderer.bindings[b].fn, m), b)
      [] m.renderer.bindings[b].kind = "optimized" ->
             updateChildrenOptimized(ChildrenFn(m.renderer.bindings[b].fn, m), b)

\* dependencies.forEach(path => ...) of _createReactiveUpdate from the i-th on
RECURSIVE subscribeDependencies(_, _, _, _, _)
subscribeDependencies(m, dependencies, i, element, callback) ==
    IF i > Len(dependencies) THEN m
    ELSE subscribeDependencies(
             [subscribeInternal(m, dependencies[i], callback)
                EXCEPT !.renderer.subscriptions[element] =
                           Append(@, [path |-> dependencies[i], callback |-> callback])],
             dependencies, i + 1, element, callback)

\* the end of _createReactiveUpdate, given the manager m2 as updateFn left it:
\* currentTracking is set back to originalTracking, which is the dependencies
\* set itself
subscribeTrackedDependencies(m2, element, b) ==
    subscribeDependencies(Caught(m2), m2.currentTracking.paths, 1, element, BindingName(b))

_createReactiveUpdate(m, element, b) ==
    subscribeTrackedDependencies(
        updateFn([m EXCEPT !.currentTracking = FreshTracking], b), element, b)

\* a closure is made for the element
newClosure(m, kind, element, fn) ==
    [m EXCEPT !.renderer.bindings = Append(@, Closure(kind, element, fn))]

_handleText(m, element, text) ==
    CASE text.kind = "fn" ->
             _createReactiveUpdate(newClosure(m, "text", element, text.fn), element,
                                   Len(m.renderer.bindings) + 1)
      [] text.kind = "static" ->
             [m EXCEPT !.renderer.nodes = setTextContent(@, element, text.val)]
      [] OTHER -> m

\* the initial reconciliation of _handleChildrenOptimized, given what the
\* second call of children() did; when it threw, the catch block calls it a
\* third time, and that exception leaves _handleChildrenOptimized
initialReconcile(r, element, b) ==
    IF r.threw THEN Raise([r.m EXCEPT !.renderer.bindings[b].useOptimizedPath = FALSE])
    ELSE storeReconciled(_reconcileChildren(r.m, element, <<>>, r.list), b, r.list)

\* _handleChildrenOptimized for a function, after _createReactiveUpdate
initialChildren(m, element, b) ==
    initialReconcile(ChildrenFn(m.renderer.bindings[b].fn, m), element, b)

\* the try / catch around the reconciliation of static children
staticFallback(r, element, children) ==
    IF r.m.exc THEN _updateChildren(Caught(r.m), element, children) ELSE r.m

_handleChildrenOptimized(m, element, children) ==
    CASE children.kind = "fn" ->
             initialChildren(
                 _createReactiveUpdate(newClosure(m, "optimized", element, children.fn),
                                       element, Len(m.renderer.bindings) + 1),
                 element, Len(m.renderer.bindings) + 1)
      [] children.kind = "static" ->
             staticFallback(_reconcileChildren(m, element, <<>>, children.list),
                            element, children.list)
      [] OTHER -> m

_handleChildrenFineGrained(m, element, children) ==
    CASE children.kind = "fn" ->
             _createReactiveUpdate(newClosure(m, "children", element, children.fn),
                                   element, Len(m.renderer.bindings) + 1)
      [] children.kind = "static" -> _updateChildren(m, element, children.list)
      [] OTHER -> m

_handleChildren(m, element, children) ==
    IF m.renderer.renderMode = "fine-grained"
    THEN _handleChildrenFineGrained(m, element, children)
    ELSE _handleChildrenOptimized(m, element, children)

\* Object.entries(props).forEach(...) of _setupSyncElement and of
\* _processProperties: text, then children
_processProperties(m, element, vnode) ==
    _handleChildren(_handleText(m, element, vnode.text), element, vnode.children)

\* this.subscriptions.set(element, ...) is skipped when a property handler
\* threw: the unsubscribe functions collected so far are then lost
setSubscriptions(m, element) ==
    [m |-> IF m.exc THEN [m EXCEPT !.renderer.subscriptions[element] = <<>>] ELSE m,
     el |-> IF m.exc THEN 0 ELSE element]

_createElementFineGrained(m, vnode) ==
    setSubscriptions(
        _processProperties(createElement(m, vnode.tag), Len(m.renderer.nodes) + 1, vnode),
        Len(m.renderer.nodes) + 1)

\* _getRecycledElement(tagName) || document.createElement(tagName): the manager,
\* with the element chosen as the last field
recycledOrNew(m, tag) ==
    LET pool == PoolOf(m, tag)
    IN  IF Len(pool) > 0
        THEN [m |-> [m EXCEPT !.renderer.recyclePool =
                                  SelectSeq(@, LAMBDA e : e # pool[Len(pool)]),
                              !.renderer.nodes = _resetElement(@, pool[Len(pool)])],
              el |-> pool[Len(pool)]]
        ELSE [m |-> createElement(m, tag), el |-> Len(m.renderer.nodes) + 1]

\* _createElementOptimized after the element was obtained
setupOptimized(r, vnode, key) ==
    setSubscriptions(
        _processProperties(
            [r.m EXCEPT !.renderer.elementCache = CacheSet(@, key, r.el),
                        !.renderer.nodes[r.el].key = key],
            r.el, vnode),
        r.el)

_createElementOptimized(m, vnode, key) == setupOptimized(recycledOrNew(m, vnode.tag), vnode, key)

\* the catch block of render: the failure is counted, the mode falls back
\* after maxFailures, and the element is made the fine-grained way
MaxFailures == 3

renderFallback(r, vnode) ==
    IF r.m.exc
    THEN _createElementFineGrained(
             [Caught(r.m) EXCEPT !.renderer.failureCount = @ + 1,
                                 !.renderer.renderMode =
                                     IF r.m.renderer.failureCount + 1 >= MaxFailures
                                     THEN "fine-grained" ELSE @],
             vnode)
    ELSE r

\* DOMRenderer.render(vnode) for one element description
render(m, vnode) ==
    IF m.renderer.renderMode = "fine-grained" THEN _createElementFineGrained(m, vnode)
    ELSE LET key == generateKey(vnode)
             cachedElement == CacheGet(m, key)
         IN  IF cachedElement # 0 /\ _canReuseElement(m.renderer.nodes, cachedElement, vnode.tag)
             THEN [m |-> m, el |-> cachedElement]
             ELSE renderFallback(_createElementOptimized(m, vnode, key), vnode)

-----------------------------------------------------------------------------
(* setState and everything it calls.  d is the depth of the setState call   *)
(* on the call stack; every operator returns the manager as the call left   *)
(* it.                                                                       *)

RECURSIVE setState(_, _, _, _)
RECURSIVE setStateImmediate(_, _, _, _)
RECURSIVE runMiddleware(_, _, _, _, _)
RECURSIVE notifySubscribers(_, _, _)
RECURSIVE triggerPathSubscribers(_, _, _)
RECURSIVE triggerEach(_, _, _, _, _)
RECURSIVE triggerAll(_, _, _, _)
RECURSIVE notifyExternalSubscribers(_, _, _, _, _, _, _)

\* what a subscriber callback does when invoked: a callback of the application,
\* or a closure of the renderer
Callback(callback, m, d) ==
    CASE callback = "nop" -> m
      [] callback = "boom" -> Raise(m)
      [] callback = "setX" -> setState(m, P_x, N1, d + 1)
      [] callback = "setB" -> setState(m, P_b, N2, d + 1)
      [] IsBinding(m, callback) -> updateFn(m, BindingOf(m, callback))

\* what a middleware function of the application does when invoked:
\* the manager as it leaves it, and the value it returns
Middleware(fn, m, path, oldValue, newValue, d) ==
    CASE fn = "keep" -> [m |-> m, result |-> Undefined]
      [] fn = "toN1" -> [m |-> m, result |-> N1]
      [] fn = "bump" -> [m |-> m, result |-> IF newValue = N1 THEN N2 ELSE Undefined]
      [] fn = "boom" -> [m |-> Raise(m), result |-> Undefined]
      [] fn = "reenter" -> [m |-> setState(m, path, newValue, d + 1), result |-> Undefined]

\* a loop body that takes whatever the function returned, undefined included
middlewareResult_unchecked(finalValue, threw, result) ==
    IF threw THEN finalValue ELSE result

\* the body of the middleware loop: finalValue after one function, which threw
\* (its error is caught and logged) or returned result
middlewareResult(finalValue, threw, result) ==
    IF threw THEN finalValue
    ELSE IF Tag(result) # "undef" THEN result
    ELSE finalValue

\* one turn of the middleware loop, given what the function r did: the manager
\* with the error caught, and finalValue
middlewareStep(r, finalValue) ==
    [m |-> Caught(r.m), v |-> middlewareResult(finalValue, r.m.exc, r.result)]

\* the middleware loop of _setStateImmediate and of _processBatchedUpdates from
\* the i-th function on; s holds the manager and finalValue so far
runMiddleware(s, path, oldValue, i, d) ==
    IF i > Len(s.m.middleware) THEN s
    ELSE LET fn == s.m.middleware[i]
         IN  runMiddleware(
                 middlewareStep(
                     Middleware(fn,
                                Log(s.m, Entry("mw", fn, FALSE, path, path, s.v, oldValue, d, s.m.state)),
                                path, oldValue, s.v, d),
                     s.v),
                 path, oldValue, i + 1, d)

\* the subscriptions a binding gains from the paths it read: newTracking.forEach
RECURSIVE subscribeTracked(_, _, _, _)
subscribeTracked(m, newTracking, callback, i) ==
    IF i > Len(newTracking) THEN m
    ELSE subscribeTracked(
             IF ~SeqHas(MapGet(m.subscribers, newTracking[i]), callback)
             THEN subscribeInternal(m, newTracking[i], callback)
             ELSE m,
             newTracking, callback, i + 1)

\* the catch block of _triggerPathSubscribers restores `oldTracking`, a const
\* declared inside the try block and so not in scope in the catch block:
\* evaluating it throws a ReferenceError, which leaves the loop
catchSubscriberError(m) == Raise(m)

\* the try / catch around callback(), given the manager m2 as the callback
\* left it
afterCallback(m2, oldTracking, callback) ==
    IF m2.exc
    THEN catchSubscriberError(Caught(m2))
    ELSE subscribeTracked([m2 EXCEPT !.currentTracking = oldTracking],
                          m2.currentTracking.paths, callback, 1)

\* new Set(subs).forEach(callback => ...) from the i-th callback on, until an
\* exception leaves the loop
triggerEach(m, path, subs, i, d) ==
    IF i > Len(subs) \/ m.exc THEN m
    ELSE triggerEach(
             afterCallback(
                 Callback(subs[i],
                          Log([m EXCEPT !.currentTracking = FreshTracking],
                              Entry("int", subs[i], TRUE, path, path, Undefined, Undefined, d, m.state)),
                          d),
                 m.currentTracking, subs[i]),
             path, subs, i + 1, d)

triggerPathSubscribers(m, path, d) ==
    LET subs == MapGet(m.subscribers, path)
    IN  IF Len(subs) > 0 THEN triggerEach(m, path, subs, 1, d) ELSE m

\* _triggerPathSubscribers on each path of a list, until one throws
triggerAll(m, paths, i, d) ==
    IF i > Len(paths) \/ m.exc THEN m
    ELSE triggerAll(triggerPathSubscribers(m, paths[i], d), paths, i + 1, d)

\* the second half of _notifySubscribers: the subscribed paths below path
notifyDescendants(m1, path, d) ==
    LET prefix == IF path # <<>> THEN path \o <<".">> ELSE <<>>
        allPaths == Dedupe(MapKeys(m1.subscribers) \o MapKeys(m1.externalSubscribers))
        descendants == SelectSeq(allPaths,
                           LAMBDA subscriberPath :
                               StartsWith(subscriberPath, prefix) /\ subscriberPath # path)
    IN  IF m1.exc THEN m1 ELSE triggerAll(m1, descendants, 1, d)

\* a loop over the ancestors that starts at the root
notifySubscribers_rootFirst(m, path, d) ==
    LET parts == getPathParts(path)
        ancestors == [k \in 1..(Len(parts) - 1) |-> Join(SubSeq(parts, 1, k))]
    IN  notifyDescendants(triggerAll(m, <<path>> \o ancestors, 1, d), path, d)

notifySubscribers(m, path, d) ==
    LET parts == getPathParts(path)
        ancestors == [k \in 1..(Len(parts) - 1) |-> Join(SubSeq(parts, 1, Len(parts) - k))]
    IN  notifyDescendants(triggerAll(m, <<path>> \o ancestors, 1, d), path, d)

\* this.externalSubscribers.forEach(... subscriptions.forEach(...)) from the i-th on
notifyExternalSubscribers(m, changedPath, newValue, oldValue, subscriptions, i, d) ==
    IF i > Len(subscriptions) THEN m
    ELSE LET s == subscriptions[i]
         IN  notifyExternalSubscribers(
                 IF shouldNotify(s.hierarchical, changedPath, s.path)
                 THEN Caught(Callback(s.callback,
                                      Log(m, Entry("ext", s.callback, s.hierarchical, s.path, changedPath,
                                                   newValue, oldValue, d, m.state)),
                                      d))
                 ELSE m,
                 changedPath, newValue, oldValue, subscriptions, i + 1, d)

\* the end of the notification block of _setStateImmediate, given the manager
\* m2 as _notifySubscribers left it
notifyExternalAndRelease(m2, path, finalValue, oldValue, d) ==
    IF m2.exc THEN m2
    ELSE [notifyExternalSubscribers(m2, path, finalValue, oldValue,
              Subscriptions(m2.externalSubscribers), 1, d)
            EXCEPT !.currentlyUpdating = @ \ {path},
                   !.isUpdating = FALSE]

\* _setStateImmediate after its middleware loop, which left the manager and
\* finalValue r
writeAndNotify(r, path, oldValue, d) ==
    IF deepEquals(oldValue, r.v) THEN r.m
    ELSE IF r.m.isUpdating
    THEN [r.m EXCEPT !.state = WriteTree(@, getPathParts(path), r.v)]
    ELSE notifyExternalAndRelease(
             notifySubscribers(
                 [r.m EXCEPT !.state = WriteTree(@, getPathParts(path), r.v),
                             !.isUpdating = TRUE,
                             !.currentlyUpdating = @ \cup {path}],
                 path, d),
             path, r.v, oldValue, d)

setStateImmediate(m, path, value, d) ==
    writeAndNotify(
        runMiddleware([m |-> getStateTrack(m, path, TRUE), v |-> value],
                      path, getState(m.state, path, Null), 1, d),
        path, getState(m.state, path, Null), d)

setState(m, path, value, d) ==
    IF d > StackLimit THEN Raise(m)           \* RangeError: call stack exhausted
    ELSE IF ~isValidPath(path) \/ hasCircularUpdate(m, path) THEN m
    ELSE IF m.isBatching THEN queueBatchedUpdate(m, path, value)
    ELSE setStateImmediate(m, path, value, d)

-----------------------------------------------------------------------------
(* Manual batching *)

beginBatch(m) == [m EXCEPT !.isBatching = TRUE, !.batchQueue = <<>>, !.batchedPaths = {}]

clearBatch(m) ==
    IF m.isBatching THEN [m EXCEPT !.batchQueue = <<>>, !.batchedPaths = {}] ELSE m

\* StateManager.reset()
reset(m) ==
    [m EXCEPT !.batchQueue = IF m.isBatching THEN <<>> ELSE @,
              !.batchedPaths = IF m.isBatching THEN {} ELSE @,
              !.isBatching = FALSE,
              !.state = JSONClone(m.initialState)]

\* the body of pathGroups.forEach after the middleware loop, which left the
\* manager and finalValue r: the manager and the paths of appliedUpdates
applyUpdate(r, path, oldValue, applied) ==
    IF deepEquals(oldValue, r.v)
    THEN [m |-> r.m, applied |-> applied]
    ELSE [m |-> [r.m EXCEPT !.state = WriteTree(@, getPathParts(path), r.v)],
          applied |-> Append(applied, path)]

\* pathGroups.forEach(update => ...) from the i-th update on; a holds the
\* manager and the paths of appliedUpdates so far
RECURSIVE applyUpdates(_, _, _, _)
applyUpdates(a, updates, i, d) ==
    IF i > Len(updates) THEN a
    ELSE applyUpdates(
             applyUpdate(
                 runMiddleware([m |-> getStateTrack(a.m, updates[i].path, TRUE),
                                v |-> updates[i].value],
                               updates[i].path,
                               getState(a.m.state, updates[i].path, Null), 1, d),
                 updates[i].path,
                 getState(a.m.state, updates[i].path, Null),
                 a.applied),
             updates, i + 1, d)

\* this.externalSubscribers.get(path).forEach(...) of _processBatchedUpdates
RECURSIVE notifyBatchExternal(_, _, _, _, _)
notifyBatchExternal(m, path, subs, j, d) ==
    IF j > Len(subs) THEN m
    ELSE LET m1 == getStateTrack(m, path, TRUE)
         IN  notifyBatchExternal(
                 Caught(Callback(subs[j].callback,
                                 Log(m1, Entry("ext", subs[j].callback, subs[j].hierarchical,
                                               path, path,
                                               getState(m1.state, path, Null), Null, d, m1.state)),
                                 d)),
                 path, subs, j + 1, d)

\* the second statement of the body of parentPaths.forEach, given the manager
\* m1 as the first left it
notifyPathExternal(m1, path, d) ==
    IF m1.exc THEN m1
    ELSE IF MapHas(m1.externalSubscribers, path)
    THEN notifyBatchExternal(m1, path, MapGet(m1.externalSubscribers, path), 1, d)
    ELSE m1

\* parentPaths.forEach(path => ...) from the i-th path on, until an exception
\* leaves the loop
RECURSIVE notifyParentPaths(_, _, _, _)
notifyParentPaths(m, paths, i, d) ==
    IF i > Len(paths) \/ m.exc THEN m
    ELSE notifyParentPaths(
             notifyPathExternal(
                 IF MapHas(m.subscribers, paths[i])
                 THEN triggerPathSubscribers(m, paths[i], d) ELSE m,
                 paths[i], d),
             paths, i + 1, d)

\* _processBatchedUpdates after pathGroups.forEach, which left the manager and
\* the applied paths a
notifyApplied(a, wasUpdating, d) ==
    notifyParentPaths([a.m EXCEPT !.isUpdating = wasUpdating], parentPaths(a.applied), 1, d)

processBatchedUpdates(m, d) ==
    notifyApplied(
        applyUpdates([m |-> [m EXCEPT !.batchQueue = <<>>, !.batchedPaths = {},
                                      !.isUpdating = TRUE],
                      applied |-> <<>>],
                     pathGroups(m.batchQueue), 1, d),
        m.isUpdating, d)

endBatch(m, d) ==
    IF ~m.isBatching THEN m
    ELSE IF Len(m.batchQueue) = 0 THEN [m EXCEPT !.isBatching = FALSE]
    ELSE processBatchedUpdates([m EXCEPT !.isBatching = FALSE], d)

-----------------------------------------------------------------------------
(* executeBatch.  Its code runs in one step when callback() returns a plain *)
(* value or throws, and in two when callback() returns a thenable: the call, *)
(* and the then or .catch callback when the thenable settles.                *)
(* m.batches.pending holds the thenables that have not settled, and          *)
(* m.batches.delivered what the last step gave to the caller of executeBatch *)
(* or to the holder of the promise it returned.                              *)

\* callback(): the callbacks handed to executeBatch.  Each writes x; one
\* throws afterwards, two return a promise that settles later, and one
\* returns an object that has a then method and no catch method, whose then
\* calls the function it is given later
BatchCallbacks == {"write", "writeThrow", "asyncResolve", "asyncReject", "plainThenable"}

Written(cb) == IF cb \in {"write", "asyncResolve", "plainThenable"} THEN N1 ELSE N2

Throwing(cb) == cb = "writeThrow"

\* result && typeof result.then === 'function'
Thenable(cb) == cb \in {"asyncResolve", "asyncReject", "plainThenable"}

\* whether what result.then(...) returns has a catch method
HasCatch(cb) == cb # "plainThenable"

\* the steps: executeBatch(cb) is called, or the i-th pending thenable p settles
CallOf(cb) == [kind |-> "call", cb |-> cb, owner |-> FALSE, i |-> 0]

SettleOf(p, i) == [kind |-> "settle", cb |-> p.cb, owner |-> p.owner, i |-> i]

\* whether the batch that is active during step s was begun by the
\* executeBatch call the step belongs to
Began(m, s) == IF s.kind = "call" THEN ~m.isBatching ELSE s.owner

\* if (this.isBatching) return callback(); this.beginBatch(); callback():
\* the manager when callback() has returned or thrown; in a settle step,
\* the manager when the thenable has left the pending ones
BatchCallback(m, s, d) ==
    IF s.kind = "call"
    THEN setState(IF m.isBatching THEN m ELSE beginBatch(m), P_x, Written(s.cb), d + 1)
    ELSE [m EXCEPT !.batches.pending = SubSeq(@, 1, s.i - 1) \o SubSeq(@, s.i + 1, Len(@))]

\* what the caller of executeBatch receives
Delivered(m, what) == [m EXCEPT !.batches.delivered = what]

\* result.then(...) registers the then callback of executeBatch; return
\* callback() hands the thenable itself to the caller
Pending(m, cb, began) ==
    [m EXCEPT !.batches.pending = Append(@, [cb |-> cb, owner |-> began])]

\* return result or throw error, after this.endBatch() ran where executeBatch
\* began the batch.  If endBatch threw in the try block or the then callback,
\* the catch block or .catch callback calls endBatch once more, which returns
\* at once because endBatch clears isBatching before anything in it can
\* throw, and throws that exception on; if endBatch threw in the catch block
\* or .catch callback, its exception is the one that leaves
returnOrThrow(m, error) ==
    IF m.exc THEN Delivered(m, "ReferenceError")
    ELSE IF error # "" THEN Delivered(Raise(m), error)
    ELSE Delivered(m, "value")

\* whether this.endBatch() runs in step s: in the try block after a callback
\* that returned no thenable, in the catch block, or in the then or .catch
\* callback.  result.then(...).catch throws a TypeError inside the try block
\* when what then returned has no catch method
Ends(s, began) ==
    began /\ (s.kind = "settle" \/ ~Thenable(s.cb) \/ ~HasCatch(s.cb))

\* the end of a step, this.endBatch() done if it was due.  An exception in
\* the then or .catch callback rejects the promise the caller holds and is
\* thrown at nobody; what the then callback of a thenable without catch
\* returns reaches nobody
stepOutcome(m, s, began) ==
    IF s.kind = "settle"
    THEN IF began /\ ~HasCatch(s.cb) THEN Delivered(Caught(m), "")
         ELSE Caught(returnOrThrow(m, IF s.cb = "asyncReject" THEN "E" ELSE ""))
    ELSE IF ~Thenable(s.cb) THEN returnOrThrow(m, IF Throwing(s.cb) THEN "E" ELSE "")
    ELSE IF began /\ ~HasCatch(s.cb) THEN returnOrThrow(Pending(m, s.cb, began), "TypeError")
    ELSE Delivered(Pending(m, s.cb, began), "promise")

\* executeBatch after callback() returned or threw, or after the thenable
\* settled
afterBatchCallback(m, s, began, d) ==
    stepOutcome(IF Ends(s, began) THEN endBatch(m, d) ELSE m, s, began)

\* StateManager.executeBatch(callback), step s of it
executeBatch(m, s, d) == afterBatchCallback(BatchCallback(m, s, d), s, Began(m, s), d)

-----------------------------------------------------------------------------
(* createPromisify.  t is the closure: activePromises, isTracking and       *)
(* subscribers, with the promises made so far (a promise is its index), the *)
(* reactions the event loop has queued as microtasks and the timers that    *)
(* wait.  A promise records whether it is settled and whether tracking was *)
(* on when it passed through promisify.  t.log lists the onAllComplete      *)
(* callbacks invoked in the current task, each with the size of             *)
(* activePromises and the number of unsettled promises made under tracking  *)
(* at that moment; t.added tells whether the last promisify call added its  *)
(* promise to activePromises.                                               *)

NewPromisify ==
    [activePromises |-> {}, isTracking |-> FALSE, subscribers |-> <<>>,
     promises |-> <<>>, microtasks |-> <<>>, timers |-> <<>>,
     log |-> <<>>, added |-> FALSE]

\* what is handed to promisify: a plain value, or a promise that is pending
Results == {"value", "thenable"}

\* result?.then
HasThen(result) == result = "thenable"

\* isTracking && promise !== result, where promise is result itself when
\* result has a then, and Promise.resolve(result) otherwise
Tracked(t, result) == t.isTracking /\ ~HasThen(result)

\* activePromises.add(promise); promise.finally(...): the reaction of a
\* promise that is resolved already is queued at once
track(t, promise) ==
    [t EXCEPT !.activePromises = @ \cup {promise},
              !.microtasks = IF t.promises[promise].settled THEN Append(@, promise) ELSE @]

\* trackingPromisify(result)
trackingPromisify(t, result) ==
    LET promise == Len(t.promises) + 1
        made == [t EXCEPT !.promises =
                     Append(@, [settled |-> ~HasThen(result), tracking |-> t.isTracking]),
                          !.added = Tracked(t, result)]
    IN  IF Tracked(t, result) THEN track(made, promise) ELSE made

\* the callbacks handed to onAllComplete: one does nothing, one passes a
\* plain value through promisify
Callbacks == {"nop", "promisify"}

\* the promises that passed through promisify under tracking and are pending
PendingPromises(t) ==
    { promise \in 1..Len(t.promises) :
        t.promises[promise].tracking /\ ~t.promises[promise].settled }

\* callback()
invoke(t, callback) ==
    LET logged == [t EXCEPT !.log = Append(@, [callback |-> callback,
                                               outstanding |-> Cardinality(t.activePromises),
                                               pending |-> Cardinality(PendingPromises(t))])]
    IN  IF callback = "promisify" THEN trackingPromisify(logged, "value") ELSE logged

\* subscribers.forEach(callback => callback()) from the i-th on
RECURSIVE invokeEach(_, _, _)
invokeEach(t, callbacks, i) ==
    IF i > Len(callbacks) THEN t
    ELSE invokeEach(invoke(t, callbacks[i]), callbacks, i + 1)

checkAllComplete(t) ==
    IF t.activePromises = {} /\ Len(t.subscribers) > 0
    THEN invokeEach(t, t.subscribers, 1)
    ELSE t

\* the function given to promise.finally
finally(t, promise) ==
    [t EXCEPT !.activePromises = @ \ {promise},
              !.timers = Append(@, "checkAllComplete")]

startTracking(t) == [t EXCEPT !.isTracking = TRUE, !.activePromises = {}]

stopTracking(t) == [t EXCEPT !.isTracking = FALSE, !.subscribers = <<>>]

onAllComplete(t, callback) ==
    [t EXCEPT !.subscribers = IF SeqHas(@, callback) THEN @ ELSE Append(@, callback),
              !.timers = IF t.activePromises = {} THEN Append(@, callback) ELSE @]

\* the timer at the head of the queue fires
timer(t) ==
    IF Head(t.timers) = "checkAllComplete"
    THEN checkAllComplete([t EXCEPT !.timers = Tail(@)])
    ELSE invoke([t EXCEPT !.timers = Tail(@)], Head(t.timers))

\* a pending promise settles; the reaction of a tracked one is queued
settlePromise(t, promise) ==
    [t EXCEPT !.promises[promise].settled = TRUE,
              !.microtasks = IF promise \in t.activePromises THEN Append(@, promise) ELSE @]

-----------------------------------------------------------------------------
(* Elements with thenable properties.  The properties are text and title;   *)
(* a property is absent ("none") or a promise, named by how it settles: it  *)
(* resolves to "A" or to "B", rejects with new Error("E") ("rejectE"), or   *)
(* rejects with undefined ("rejectU").  a holds the elements (what they     *)
(* show, and the promises they were rendered with), asyncCache and the      *)
(* elements whose Promise.all is pending.  It also holds one element with   *)
(* a reactive text: its textContent, the closure variables lastTextValue    *)
(* and isInitialized of its updateText, and the runs of updateText so far,  *)
(* each with what textFn returned (a string, or a promise named by the      *)
(* string it resolves to) and whether it is settled.                        *)

NewAsyncDom ==
    [elements |-> <<>>, asyncCache |-> <<>>, pending |-> <<>>,
     textContent |-> "", lastTextValue |-> "null", isInitialized |-> FALSE, runs |-> <<>>]

AsyncKeys == {"text", "title"}

\* this._isPromiseLike(value)
_isPromiseLike(value) == value # "none"

\* JSON.stringify(asyncProps, (key, value) => this._isPromiseLike(value) ? '[Promise]' : value)
_generateAsyncCacheKey(asyncProps) ==
    "{" \o (IF _isPromiseLike(asyncProps.text) THEN "text:[Promise]," ELSE "")
        \o (IF _isPromiseLike(asyncProps.title) THEN "title:[Promise]," ELSE "") \o "}"

\* _setPlaceholder(element, key) for each thenable property
Placeholders(asyncProps) ==
    [text |-> IF _isPromiseLike(asyncProps.text) THEN "..." ELSE "",
     title |-> IF _isPromiseLike(asyncProps.title) THEN "loading" ELSE ""]

\* promisify(value).then(...).catch(error => ({ key, error: error.message, success: false })):
\* what the entry of Promise.all settles to; reading the message of undefined
\* throws, and the entry rejects
ResolveOne(promise) ==
    CASE promise \in {"A", "B"} -> [success |-> TRUE, value |-> promise, rejected |-> FALSE]
      [] promise = "rejectE" -> [success |-> FALSE, value |-> "E", rejected |-> FALSE]
      [] promise = "rejectU" -> [success |-> FALSE, value |-> "", rejected |-> TRUE]
      [] OTHER -> [success |-> TRUE, value |-> "", rejected |-> FALSE]

\* the thenable properties of asyncProps
AsyncKeysOf(asyncProps) == { key \in AsyncKeys : _isPromiseLike(asyncProps[key]) }

\* resolvedProps of the then callback of Promise.all
ResolvedProps(asyncProps) ==
    [key \in AsyncKeysOf(asyncProps) |-> ResolveOne(asyncProps[key])]

\* what the element shows for key once value is applied: a text error is
\* written out, an error of another attribute only marks the element
AppliedValue(shown, key, value) ==
    IF value.success THEN value.value
    ELSE IF key = "text" THEN "Error: " \o value.value
    ELSE shown

\* _applyResolvedProps(element, resolvedProps, subscriptions)
_applyResolvedProps(a, element, resolvedProps) ==
    [a EXCEPT !.elements[element].shown =
        [key \in AsyncKeys |->
            IF key \in DOMAIN resolvedProps
            THEN AppliedValue(@[key], key, resolvedProps[key])
            ELSE @[key]]]

\* this.asyncCache.get(cacheKey), if it is younger than five seconds
CachedAsync(a, cacheKey) ==
    SelectSeq(a.asyncCache, LAMBDA e : e.key = cacheKey /\ e.fresh)

\* _resolveAsyncProps(element, asyncProps, subscriptions)
_resolveAsyncProps(a, element, asyncProps) ==
    IF CachedAsync(a, _generateAsyncCacheKey(asyncProps)) # <<>>
    THEN _applyResolvedProps(a, element,
                             CachedAsync(a, _generateAsyncCacheKey(asyncProps))[1].props)
    ELSE [a EXCEPT !.pending = Append(@, element)]

\* _createElementFineGrained(tagName, props) for props that are thenables:
\* _setupAsyncElement sets the placeholders and calls _resolveAsyncProps
_setupAsyncElement(a, asyncProps) ==
    _resolveAsyncProps(
        [a EXCEPT !.elements = Append(@, [shown |-> Placeholders(asyncProps),
                                          props |-> asyncProps])],
        Len(a.elements) + 1, asyncProps)

\* the then callback of Promise.all(resolvePromises) for the element; it does
\* not run when an entry rejected
thenResolved(a, element) ==
    LET asyncProps == a.elements[element].props
        resolvedProps == ResolvedProps(asyncProps)
    IN  IF \E key \in DOMAIN resolvedProps : resolvedProps[key].rejected THEN a
        ELSE _applyResolvedProps(
                 [a EXCEPT !.asyncCache =
                     Append(SelectSeq(@, LAMBDA e : e.key # _generateAsyncCacheKey(asyncProps)),
                            [key |-> _generateAsyncCacheKey(asyncProps),
                             props |-> resolvedProps, fresh |-> TRUE])],
                 element, resolvedProps)

\* the sentinel a children function returns to leave the children as they are
Ignore == "ignore"

\* if (!isInitialized || result !== lastTextValue) { element.textContent = result; ... }
applyText(a, text) ==
    IF ~a.isInitialized \/ text # a.lastTextValue
    THEN [a EXCEPT !.textContent = text, !.lastTextValue = text, !.isInitialized = TRUE]
    ELSE a

\* updateText of _handleReactiveText, given what textFn returned
updateTextWith(a, result) ==
    IF result.kind = "promise"
    THEN [a EXCEPT !.runs = Append(@, [kind |-> "promise", value |-> result.value,
                                       settled |-> FALSE])]
    ELSE applyText([a EXCEPT !.runs = Append(@, [kind |-> "value", value |-> result.value,
                                                 settled |-> TRUE])],
                   result.value)

\* the then callback of the promise the i-th run returned
thenText(a, i) == applyText([a EXCEPT !.runs[i].settled = TRUE], a.runs[i].value)

-----------------------------------------------------------------------------
(* ComponentManager.  A prop is a plain value or a promise; a component      *)
(* function returns an element description or a promise, or throws.  A       *)
(* promise the manager waits for is an entry of m.components.pending until   *)
(* it settles.                                                               *)

\* a plain prop value, and a promise (named id) that resolves to v
Plain(v) == [promise |-> "", val |-> v]
PromiseOf(id, v) == [promise |-> id, val |-> v]
Props(mode, value) == [mode |-> mode, value |-> value]

_hasAsyncProps(props) == props.value.promise # ""

\* JSON.stringify(props, (key, value) => value?.then ? '[Promise]' : value)
_generateCacheKey(props) ==
    props.mode \o ":" \o
        (IF props.value.promise # "" THEN "[Promise]" ELSE ToText(props.value.val))

\* this.componentCounters.get(name), 0 before the first instance
CounterOf(m, name) ==
    IF \E i \in 1..Len(m.components.componentCounters) :
           m.components.componentCounters[i].name = name
    THEN m.components.componentCounters[
             CHOOSE i \in 1..Len(m.components.componentCounters) :
                 m.components.componentCounters[i].name = name].count
    ELSE 0

\* _setupComponent(name): the counter of the name is advanced, and an empty
\* Set of state paths is made for the instance `${name}_${instanceIndex}`
_setupComponent(m, name, props) ==
    [m EXCEPT !.components.componentCounters =
                  Append(SelectSeq(@, LAMBDA c : c.name # name),
                         [name |-> name, count |-> CounterOf(m, name) + 1]),
              !.components.sets =
                  Append(@, [id |-> name \o "_" \o ToString(CounterOf(m, name) + 1),
                             name |-> name, props |-> props, paths |-> <<>>, element |-> 0])]

\* `__local.${componentId}.${key}`
StatePath(componentId, key) == <<"__local", ".", componentId, ".", key>>

\* Symbol('not-found') === Symbol('not-found'): two symbols are never equal
SymbolsEqual == FALSE

\* componentStates.add(statePath)
addStatePath(m, set, statePath) ==
    IF SeqHas(m.components.sets[set].paths, statePath) THEN m
    ELSE [m EXCEPT !.components.sets[set].paths = Append(@, statePath)]

\* context.newState(key, initialValue) of the instance that owns the Set
newState(m, set, key, initialValue, d) ==
    addStatePath(
        IF SymbolsEqual
        THEN setState(getStateTrack(m, StatePath(m.components.sets[set].id, key), TRUE),
                      StatePath(m.components.sets[set].id, key), initialValue, d)
        ELSE getStateTrack(m, StatePath(m.components.sets[set].id, key), TRUE),
        set, StatePath(m.components.sets[set].id, key))

\* what a component function does and returns
NoResult == [kind |-> "none", vnode |-> Span(NoProp), outcome |-> ""]
VnodeResult(vnode) == [kind |-> "vnode", vnode |-> vnode, outcome |-> ""]
PromiseResult(outcome, vnode) == [kind |-> "promise", vnode |-> vnode, outcome |-> outcome]

\* componentFn(props, context): the registered component functions
ComponentFn(m, name, props, set) ==
    CASE name = "Show" /\ props.mode = "sync" ->
             [m |-> m, threw |-> "",
              result |-> VnodeResult(Span(StaticText(ToText(props.value.val))))]
      [] name = "Show" /\ props.mode = "async" ->
             [m |-> m, threw |-> "",
              result |-> PromiseResult("vnode", Span(StaticText(ToText(props.value.val))))]
      [] name = "Local" /\ props.mode = "early" ->
             [m |-> newState(m, set, "k", N1, 1), threw |-> "",
              result |-> VnodeResult(Span(StaticText("local")))]
      [] name = "Local" /\ props.mode = "late" ->
             [m |-> m, threw |-> "", result |-> VnodeResult(Span(StaticText("local")))]
      [] name = "Reader" /\ props.mode = "static" ->
             [m |-> getStateTrack(m, P_x, TRUE), threw |-> "",
              result |-> VnodeResult(Span(StaticText(ToText(getState(m.state, P_x, Null)))))]
      [] name = "Reader" /\ props.mode = "live" ->
             [m |-> getStateTrack(m, P_x, TRUE), threw |-> "",
              result |-> VnodeResult(Span(FnProp("count")))]
      [] name = "Bad" /\ props.mode = "throw" ->
             [m |-> m, threw |-> "error", result |-> NoResult]
      [] name = "Bad" /\ props.mode = "throwUndefined" ->
             [m |-> m, threw |-> "undefined", result |-> NoResult]
      [] name = "Bad" /\ props.mode = "reject" ->
             [m |-> m, threw |-> "", result |-> PromiseResult("error", Span(NoProp))]
      [] name = "Bad" /\ props.mode = "rejectUndefined" ->
             [m |-> m, threw |-> "", result |-> PromiseResult("undefined", Span(NoProp))]

\* parent.replaceChild(newChild, oldChild)
replaceChild(nodes, newChild, oldChild) ==
    Array([k \in 1..Len(nodes) |->
              IF k = nodes[oldChild].parent
              THEN [nodes[k] EXCEPT !.children =
                       Array([i \in 1..Len(@) |->
                                 IF @[i] = oldChild THEN newChild ELSE @[i]])]
              ELSE IF k = newChild THEN [nodes[k] EXCEPT !.parent = nodes[oldChild].parent]
              ELSE IF k = oldChild THEN [nodes[k] EXCEPT !.parent = 0]
              ELSE nodes[k]])

\* a div with the given text
createDiv(m, text) ==
    [createElement(m, "div") EXCEPT !.renderer.nodes[Len(m.renderer.nodes) + 1].text = text]

LoadingText == "Loading"
ErrorText == "Component Error"

\* _createPlaceholder(text, className), then this.asyncPlaceholders.set
_createPlaceholder(m) ==
    [createDiv(m, LoadingText) EXCEPT
        !.components.asyncPlaceholders = @ \cup {Len(m.renderer.nodes) + 1}]

\* _createErrorElement(error): reading error.message throws a TypeError when
\* the value thrown is undefined (or null)
_createErrorElement(m, error) ==
    IF error = "undefined"
    THEN [m |-> Raise(m), el |-> 0, threw |-> "error"]
    ELSE [m |-> createDiv(m, ErrorText), el |-> Len(m.renderer.nodes) + 1, threw |-> ""]

\* if (element && componentStates.size > 0) this.componentStates.set(element, componentStates)
registerStates(r, set) ==
    [m |-> IF r.el # 0
           THEN [r.m EXCEPT !.components.sets[set].element = r.el,
                            !.components.componentStates =
                                IF Len(r.m.components.sets[set].paths) > 0
                                THEN Append(SelectSeq(@, LAMBDA e : e.element # r.el),
                                            [element |-> r.el, set |-> set])
                                ELSE @]
           ELSE r.m,
     el |-> r.el,
     threw |-> IF r.m.exc THEN "error" ELSE ""]

\* _processComponentResult(result, name, props, componentStates) for a result
\* that is an element description
_processComponentResult(m, vnode, set) == registerStates(render(m, vnode), set)

\* _handleAsyncComponent(resultPromise, name, props, componentStates)
_handleAsyncComponent(m, result, name, props, set) ==
    [m |-> [_createPlaceholder(m) EXCEPT
               !.components.pending =
                   Append(@, [kind |-> "component", placeholder |-> Len(m.renderer.nodes) + 1,
                              name |-> name, props |-> props, cached |-> props, set |-> set,
                              outcome |-> result.outcome, vnode |-> result.vnode])],
     el |-> Len(m.renderer.nodes) + 1,
     threw |-> ""]

\* what follows componentFn(props, context) in create and _createSyncComponent
afterComponentFn(r, name, props, set) ==
    IF r.threw # "" THEN [m |-> r.m, el |-> 0, threw |-> r.threw]
    ELSE IF r.result.kind = "promise"
    THEN _handleAsyncComponent(r.m, r.result, name, props, set)
    ELSE _processComponentResult(r.m, r.result.vnode, set)

\* _createSyncComponent(name, componentFn, props), which is also the body of
\* the try block of create when no prop is a promise
_createSyncComponent(m, name, props) ==
    afterComponentFn(
        ComponentFn(_setupComponent(m, name, props), name, props, Len(m.components.sets) + 1),
        name, props, Len(m.components.sets) + 1)

\* the catch block of create
catchCreate(r) ==
    IF r.threw # "" THEN _createErrorElement(Caught(r.m), r.threw) ELSE r

\* this.asyncPropsCache.get(cacheKey), if it is younger than five seconds
CachedProps(m, key) ==
    SelectSeq(m.components.asyncPropsCache, LAMBDA e : e.key = key /\ e.fresh)

\* _createWithAsyncProps(name, componentFn, props): _resolveAsyncProps runs
\* up to its first await, or returns the cached props
_createWithAsyncProps(m, name, props) ==
    [m |-> [_createPlaceholder(m) EXCEPT
               !.components.pending =
                   Append(@,
                       IF CachedProps(m, _generateCacheKey(props)) # <<>>
                       THEN [kind |-> "cached", placeholder |-> Len(m.renderer.nodes) + 1,
                             name |-> name, props |-> props,
                             cached |-> CachedProps(m, _generateCacheKey(props))[1].props,
                             set |-> 0, outcome |-> "", vnode |-> Span(NoProp)]
                       ELSE [kind |-> "props", placeholder |-> Len(m.renderer.nodes) + 1,
                             name |-> name, props |-> props, cached |-> props,
                             set |-> 0, outcome |-> "", vnode |-> Span(NoProp)])],
     el |-> Len(m.renderer.nodes) + 1,
     threw |-> ""]

\* ComponentManager.create(name, props)
create(m, name, props) ==
    IF _hasAsyncProps(props)
    THEN _createWithAsyncProps(m, name, props)
    ELSE catchCreate(_createSyncComponent(m, name, props))

\* this.juris.stateManager.currentTracking = parentTracking, which an error
\* that leaves create skips
restoreTracking(r, parentTracking) ==
    IF r.m.exc THEN r ELSE [r EXCEPT !.m.currentTracking = parentTracking]

\* a render that leaves the tracking scope of the caller current
renderComponent_tracked(m, name, props) == create(m, name, props)

\* DOMRenderer.render(vnode) for a description whose tag names a registered
\* component: the tracking scope is set aside while create runs, and put
\* back when create returned
renderComponent(m, name, props) ==
    restoreTracking(create([m EXCEPT !.currentTracking = NoTracking], name, props),
                    m.currentTracking)

\* if (placeholder.parentNode) placeholder.parentNode.replaceChild(element, placeholder);
\* this.asyncPlaceholders.delete(placeholder)
replacePlaceholder(r, placeholder) ==
    IF r.threw # "" THEN r
    ELSE [r EXCEPT !.m = [r.m EXCEPT
             !.renderer.nodes =
                 IF r.el # 0 /\ r.m.renderer.nodes[placeholder].parent # 0
                 THEN replaceChild(@, r.el, placeholder)
                 ELSE @,
             !.components.asyncPlaceholders = @ \ {placeholder}]]

\* _replaceWithError(placeholder, error)
_replaceWithError(m, placeholder, error) ==
    replacePlaceholder(_createErrorElement(m, error), placeholder)

\* the catch inside a then callback, and the .catch that follows it when
\* that catch throws in its turn
catchThen(r, placeholder) ==
    IF r.threw = "" THEN r
    ELSE _replaceWithError(Caught(r.m), placeholder, r.threw)

\* two handlers in a row; a rejection the second does not handle is reported
\* by the engine and reaches nobody
catchBoth(r, placeholder) ==
    [catchThen(catchThen(r, placeholder), placeholder) EXCEPT !.m = Caught(@)]

\* the then callback of _createWithAsyncProps, given the resolved props
buildResolved(m, placeholder, name, resolvedProps) ==
    catchBoth(replacePlaceholder(_createSyncComponent(m, name, resolvedProps), placeholder),
              placeholder)

\* resolved[key] = await value
Resolved(props) == Props(props.mode, Plain(props.value.val))

\* this.asyncPropsCache.set(cacheKey, { props: resolved, timestamp: Date.now() })
cacheProps(m, props) ==
    [m EXCEPT !.components.asyncPropsCache =
        Append(SelectSeq(@, LAMBDA e : e.key # _generateCacheKey(props)),
               [key |-> _generateCacheKey(props), props |-> Resolved(props), fresh |-> TRUE])]

\* the then callback of _handleAsyncComponent and the .catch behind it
settleComponent(m, p) ==
    IF p.outcome = "vnode"
    THEN catchBoth(replacePlaceholder(_processComponentResult(m, p.vnode, p.set), p.placeholder),
                   p.placeholder)
    ELSE [_replaceWithError(m, p.placeholder, p.outcome) EXCEPT !.m = Caught(@)]

\* the promise of the i-th pending entry settles and its callbacks run
settle(m, p) ==
    CASE p.kind = "props" -> buildResolved(cacheProps(m, p.props), p.placeholder, p.name,
                                           Resolved(p.props))
      [] p.kind = "cached" -> buildResolved(m, p.placeholder, p.name, p.cached)
      [] p.kind = "component" -> settleComponent(m, p)

\* the event handler of a "Local" component: it sets its local state, which
\* it obtains from newState at that moment if it did not at set-up
handler(m, set, value) ==
    setState(
        IF m.components.sets[set].props.mode = "late"
        THEN newState(m, set, "k", N1, 1)
        ELSE m,
        StatePath(m.components.sets[set].id, "k"), value, 1)

-----------------------------------------------------------------------------
(* The applications that drive the manager, and the inputs each chooses     *)
(* from.  "counter" keeps one value at x and installs middleware and        *)
(* callbacks of every behaviour; "tree" keeps nested records under a.       *)

Apps == {"counter", "tree"}

\* the applications that render a page: "cond" shows a or b depending on a
\* flag, "count" shows a counter, "list" shows a keyed list
ViewApps == {"cond", "count", "list"}

\* the element descriptions the application renders
VnodeInputs(a) ==
    CASE a = "cond" -> {Span(FnProp("cond")),
                        Vnode("div", "", NoProp, StaticChildren(<<Span(FnProp("cond"))>>))}
      [] a = "count" -> {Span(FnProp("count")), Span(FnProp("fail"))}
      [] a = "list" -> {Vnode("ul", "", NoProp, FnProp("list"))}
      [] OTHER -> {}

RenderModes == {"fine-grained", "batch"}

W(path, value) == [path |-> path, value |-> value]
S(path, callback) == [path |-> path, callback |-> callback]

\* the writes the application issues
WriteInputs(a) ==
    CASE a = "counter" -> {W(P_x, N1), W(P_x, N2), W(P_x, NaN), W(P_x, ObjC1), W(P_dotdot, N1)}
      [] a = "tree" -> {W(P_ab, N1), W(P_ac, N1), W(P_abc, N1)}
      [] a = "cond" -> {W(P_f, N1), W(P_f, Null), W(P_a, N1), W(P_b, N1)}
      [] a = "count" -> {W(P_x, N1), W(P_x, N2), W(P_a, N1)}
      [] a = "list" -> {W(P_l, N1), W(P_l, N2), W(P_l, ObjC1), W(P_l, NaN)}
      [] a = "batch" -> {W(P_x, N1), W(P_x, N2)}
      [] a = "scope" -> {W(P_x, N1), W(P_x, N2), W(P_f, N1), W(P_b, N1)}
      [] a = "keyed" -> {W(P_l, N1), W(P_l, N2), W(P_l, Null)}
      [] a = "pool" -> {W(P_l, N1), W(P_l, N2), W(P_l, Null), W(P_x, N1), W(P_x, N2)}
      [] a = "reset" -> {W(P_x, N2), W(P_x, NaN), W(P_ab, N2), W(P_a, N1), W(P_abc, ObjC1),
                         W(P_dot, N1), W(P_x, Null)}
      [] OTHER -> {}

\* the reactive bindings it registers with subscribeInternal
InternalInputs(a) ==
    CASE a = "counter" -> {S(P_x, "nop"), S(P_x, "boom"), S(P_x, "setX")}
      [] a = "batch" -> {S(P_x, "nop"), S(P_x, "boom")}
      [] a = "tree" -> {S(P_a, "nop"), S(P_ab, "nop"), S(P_abc, "boom"), S(P_abc, "nop")}
      [] OTHER -> {S(P_a, "nop"), S(P_ab, "nop"), S(P_abc, "boom")}

\* the listeners it registers with subscribe
HierarchicalInputs(a) ==
    CASE a = "counter" -> {S(P_x, "nop"), S(P_x, "boom"), S(P_x, "setX")}
      [] a = "tree" -> {S(P_ab, "nop")}
      [] a = "cond" -> {S(P_a, "setB")}
      [] a = "count" -> {S(P_a, "setX")}
      [] a = "batch" -> {S(P_x, "nop"), S(P_x, "boom")}
      [] a = "reset" -> {S(P_x, "nop"), S(P_a, "nop")}
      [] OTHER -> {}

\* the listeners it registers with subscribeExact
ExactInputs(a) ==
    IF a = "counter"
    THEN {S(P_x, "nop")}
    ELSE {S(P_a, "nop"), S(P_abc, "nop")}

\* the middleware lists it constructs the manager with
MiddlewareInputs(a) ==
    IF a = "counter"
    THEN {<<>>} \cup UNION { [1..n -> MiddlewareFns] : n \in 1..MaxCallbacks }
    ELSE {<<>>}

-----------------------------------------------------------------------------
(* Lifecycle components: the instances of the ComponentManager, the timers  *)
(* that wait to run onMount, and the hooks that ran, in order.               *)

NewLifecycle == [elements |-> 0, instances |-> <<>>, timers |-> <<>>, log |-> <<>>]

Hooks == {"onMount", "onUnmount"}

\* this.instances.get(element): the entries of the element (none or one)
InstancesOf(c, element) == SelectSeq(c.instances, LAMBDA i : i.element = element)

\* a hook of the instance of the element ran, or the element was cleaned up
Ran(c, hook, element) == [c EXCEPT !.log = Append(@, [hook |-> hook, element |-> element])]

\* _createLifecycleComponent for a component that returns the hooks and whose
\* render() is rendered to an element, or to null
_createLifecycleComponent(c, hooks, rendered) ==
    IF ~rendered THEN c
    ELSE [c EXCEPT !.elements = @ + 1,
                   !.instances = Append(@, [element |-> c.elements + 1, hooks |-> hooks]),
                   !.timers = IF "onMount" \in hooks
                              THEN Append(@, [element |-> c.elements + 1, hooks |-> hooks])
                              ELSE @]

\* ComponentManager.cleanup(element)
cleanupInstance(c, element) ==
    [(IF \E i \in 1..Len(c.instances) :
             c.instances[i].element = element /\ "onUnmount" \in c.instances[i].hooks
      THEN Ran(Ran(c, "cleanup", element), "onUnmount", element)
      ELSE Ran(c, "cleanup", element))
        EXCEPT !.instances = SelectSeq(@, LAMBDA i : i.element # element)]

\* the callback handed to setTimeout(..., 0) runs: instance.hooks.onMount()
mountTimer(c, instance) == Ran(c, "onMount", instance.element)

-----------------------------------------------------------------------------
(* The calls of application code *)

Manager ==
    [state |-> state, middleware |-> middleware, subscribers |-> subscribers,
     externalSubscribers |-> externalSubscribers, currentTracking |-> currentTracking,
     isUpdating |-> isUpdating, currentlyUpdating |-> currentlyUpdating,
     isBatching |-> isBatching, batchQueue |-> batchQueue, batchedPaths |-> batchedPaths,
     renderer |-> renderer, components |-> components, batches |-> batches,
     initialState |-> initialState, calls |-> <<>>, exc |-> FALSE]

Op(name, path, value, callback) ==
    [name |-> name, path |-> path, value |-> value, callback |-> callback, element |-> 0]

\* a call that takes or returns an element
OpOn(name, element) ==
    [name |-> name, path |-> <<>>, value |-> Undefined, callback |-> "", element |-> element]

\* the call returned (or threw) leaving the manager as m
Returned(m, o) ==
    /\ state' = m.state
    /\ middleware' = m.middleware
    /\ subscribers' = m.subscribers
    /\ externalSubscribers' = m.externalSubscribers
    /\ currentTracking' = m.currentTracking
    /\ isUpdating' = m.isUpdating
    /\ currentlyUpdating' = m.currentlyUpdating
    /\ isBatching' = m.isBatching
    /\ batchQueue' = m.batchQueue
    /\ batchedPaths' = m.batchedPaths
    /\ renderer' = m.renderer
    /\ components' = m.components
    /\ batches' = m.batches
    /\ initialState' = m.initialState
    /\ given' = given
    /\ tracker' = tracker
    /\ asyncDom' = asyncDom
    /\ lifecycle' = lifecycle
    /\ held' = CASE o.name = "render" /\ o.element # 0 -> held \cup {o.element}
                  [] o.name = "cleanup" -> held \ {o.element}
                  [] OTHER -> held
    /\ calls' = m.calls
    /\ thrown' = m.exc
    /\ op' = o
    /\ app' = app

\* the same, for a page of at most MaxNodes elements
Return(m, o) ==
    /\ Len(m.renderer.nodes) <= MaxNodes
    /\ Returned(m, o)

\* every internal subscription with the path it is registered on
InternalSubscriptions(map) ==
    Concat([i \in 1..Len(map) |->
        [j \in 1..Len(map[i].subs) |-> [path |-> map[i].path, callback |-> map[i].subs[j]]]])

\* the callbacks installed so far
Installed ==
    Len(middleware) + Len(InternalSubscriptions(subscribers))
                    + Len(Subscriptions(externalSubscribers))

\* new DOMRenderer(juris), followed by setRenderMode(mode)
NewRenderer(mode) ==
    [renderMode |-> mode, nodes |-> <<>>, subscriptions |-> <<>>, bindings |-> <<>>,
     elementCache |-> <<>>, recyclePool |-> <<>>, failureCount |-> 0]

\* new ComponentManager(juris); sets holds the Set of state paths of every
\* component instance made, pending the promises whose settling it awaits
NewComponentManager ==
    [componentCounters |-> <<>>, sets |-> <<>>, componentStates |-> <<>>,
     asyncPlaceholders |-> {}, asyncPropsCache |-> <<>>, pending |-> <<>>]

\* new StateManager(initialState, middleware) with the rest of the engine
\* around it
ConstructedWith(tree) ==
    /\ tracker = NewPromisify
    /\ asyncDom = NewAsyncDom
    /\ lifecycle = NewLifecycle
    /\ given = tree
    /\ state = tree                      \* { ...initialState }
    /\ initialState = JSONClone(tree)    \* JSON.parse(JSON.stringify(initialState))
    /\ components = NewComponentManager
    /\ batches = [pending |-> <<>>, delivered |-> ""]
    /\ middleware \in MiddlewareInputs(app)
    /\ subscribers = <<>>
    /\ externalSubscribers = <<>>
    /\ currentTracking = NoTracking
    /\ isUpdating = FALSE
    /\ currentlyUpdating = {}
    /\ isBatching = FALSE
    /\ batchQueue = <<>>
    /\ batchedPaths = {}
    /\ held = {}
    /\ calls = <<>>
    /\ thrown = FALSE
    /\ op = Op("constructor", <<>>, Undefined, "")

\* new StateManager() with the default initialState = {}
Constructed == ConstructedWith(EmptyObj)

Init ==
    /\ app \in Apps
    /\ renderer = NewRenderer("fine-grained")
    /\ Constructed

CallSetState ==
    \E w \in WriteInputs(app) :
        /\ isBatching =>
               \/ Len(batchQueue) < MaxQueue
               \/ \E i \in 1..Len(batchQueue) : batchQueue[i].path = w.path
        /\ Return(setState(Manager, w.path, w.value, 1),
                  Op("setState", w.path, w.value, ""))

CallBeginBatch ==
    Return(beginBatch(Manager), Op("beginBatch", <<>>, Undefined, ""))

CallEndBatch ==
    Return(endBatch(Manager, 1), Op("endBatch", <<>>, Undefined, ""))

CallClearBatch ==
    Return(clearBatch(Manager), Op("clearBatch", <<>>, Undefined, ""))

CallSubscribe ==
    \E s \in HierarchicalInputs(app) :
        /\ Installed < MaxCallbacks
        /\ Return(subscribe(Manager, s.path, s.callback, TRUE),
                  Op("subscribe", s.path, Undefined, s.callback))

CallSubscribeExact ==
    \E s \in ExactInputs(app) :
        /\ Installed < MaxCallbacks
        /\ Return(subscribeExact(Manager, s.path, s.callback),
                  Op("subscribeExact", s.path, Undefined, s.callback))

CallSubscribeInternal ==
    \E s \in InternalInputs(app) :
        /\ Installed < MaxCallbacks
        /\ Return(subscribeInternal(Manager, s.path, s.callback),
                  Op("subscribeInternal", s.path, Undefined, s.callback))

Next ==
    \/ CallSetState
    \/ CallBeginBatch
    \/ CallEndBatch
    \/ CallClearBatch
    \/ CallSubscribe
    \/ CallSubscribeExact
    \/ CallSubscribeInternal

Spec == Init /\ [][Next]_vars

-----------------------------------------------------------------------------
(* The calls of an application that renders a page *)

InitView ==
    /\ app \in ViewApps
    /\ renderer \in {NewRenderer(mode) : mode \in RenderModes}
    /\ Constructed

\* render returns the element r.el
Rendered(r) == Return(r.m, OpOn("render", r.el))

\* juris.domRenderer.render(vnode)
CallRender ==
    \E vnode \in VnodeInputs(app) :
        /\ Len(renderer.bindings) < MaxBindings
        /\ Rendered(render(Manager, vnode))

\* juris.domRenderer.cleanup(element)
CallCleanup ==
    \E element \in held :
        Return(cleanup(Manager, element), OpOn("cleanup", element))

NextView ==
    \/ CallRender
    \/ CallCleanup
    \/ CallSetState
    \/ CallSubscribe
    \/ CallBeginBatch
    \/ CallEndBatch

SpecView == InitView /\ [][NextView]_vars

-----------------------------------------------------------------------------
(* The calls of an application built from components, and the settling of   *)
(* the promises it hands to them.  Element 1 is the container of the page.  *)

Container == 1

\* the components the application renders: { Name: props }
ComponentInputs ==
    {[name |-> "Show", props |-> Props("sync", Plain(N1))],
     [name |-> "Show", props |-> Props("sync", PromiseOf("p1", N1))],
     [name |-> "Show", props |-> Props("sync", PromiseOf("p2", N2))],
     [name |-> "Show", props |-> Props("async", Plain(N1))],
     [name |-> "Local", props |-> Props("early", Plain(N1))],
     [name |-> "Local", props |-> Props("late", Plain(N1))],
     [name |-> "Bad", props |-> Props("throw", Plain(N1))],
     [name |-> "Bad", props |-> Props("throw", PromiseOf("p1", N1))],
     [name |-> "Bad", props |-> Props("throwUndefined", Plain(N1))],
     [name |-> "Bad", props |-> Props("throwUndefined", PromiseOf("p1", N1))],
     [name |-> "Bad", props |-> Props("reject", Plain(N1))],
     [name |-> "Bad", props |-> Props("rejectUndefined", Plain(N1))]}

InitComp ==
    /\ app = "comp"
    /\ renderer = [NewRenderer("fine-grained") EXCEPT !.nodes = <<NewNode("div")>>,
                                                      !.subscriptions = <<<<>>>>]
    /\ Constructed

\* the instances made so far and those a pending promise will make
Instances(c) ==
    Len(c.sets) + Len(SelectSeq(c.pending, LAMBDA p : p.set = 0))

\* juris.domRenderer.render({ Name: props }) for a registered component
CallCreate ==
    \E c \in ComponentInputs :
        /\ Instances(components) < MaxInstances
        /\ Rendered(create(Manager, c.name, c.props))

\* container.appendChild(element)
CallAppend ==
    \E element \in held :
        /\ renderer.nodes[element].parent = 0
        /\ Return([Manager EXCEPT !.renderer.nodes = appendChild(@, Container, element)],
                  OpOn("append", element))

\* a promise the component manager waits for settles
Settle ==
    \E i \in 1..Len(components.pending) :
        Return(settle([Manager EXCEPT !.components.pending =
                          SubSeq(@, 1, i - 1) \o SubSeq(@, i + 1, Len(@))],
                      components.pending[i]).m,
               OpOn("settle", components.pending[i].placeholder))

\* five seconds pass: the cached props are too old to be used
Elapse ==
    /\ \E i \in 1..Len(components.asyncPropsCache) : components.asyncPropsCache[i].fresh
    /\ Return([Manager EXCEPT !.components.asyncPropsCache =
                   Array([i \in 1..Len(@) |-> [@[i] EXCEPT !.fresh = FALSE]])],
              Op("elapse", <<>>, Undefined, ""))

\* an event on the element of a "Local" component runs its handler
CallHandler ==
    \E set \in 1..Len(components.sets), value \in {N1, N2} :
        /\ components.sets[set].name = "Local"
        /\ components.sets[set].element \in held
        /\ Return(handler(Manager, set, value),
                  OpOn("handler", components.sets[set].element))

NextComp ==
    \/ CallCreate
    \/ CallAppend
    \/ Settle
    \/ Elapse
    \/ CallHandler
    \/ CallCleanup

SpecComp == InitComp /\ [][NextComp]_vars

-----------------------------------------------------------------------------
(* The calls of an application whose reactive binding renders components:   *)
(* the function of the binding reads f, renders { Name: props } with        *)
(* juris.domRenderer.render and then reads b                                *)

ScopeInputs ==
    {[name |-> "Reader", props |-> Props("static", Plain(N1))],
     [name |-> "Reader", props |-> Props("live", Plain(N1))],
     [name |-> "Reader", props |-> Props("static", PromiseOf("p1", N1))],
     [name |-> "Local", props |-> Props("early", Plain(N1))],
     [name |-> "Bad", props |-> Props("throw", Plain(N1))],
     [name |-> "Bad", props |-> Props("throwUndefined", Plain(N1))]}

InitScope ==
    /\ app = "scope"
    /\ renderer = [NewRenderer("fine-grained") EXCEPT !.nodes = <<NewNode("div")>>,
                                                      !.subscriptions = <<<<>>>>]
    /\ Constructed

\* the rest of the function of the binding, given what render did: when
\* render threw, the function ends there
afterRenderComponent(r) ==
    IF r.m.exc THEN r ELSE [r EXCEPT !.m = getStateTrack(r.m, P_b, TRUE)]

\* the dependencies set of the binding after the first read of its function
Scoped(m) == getStateTrack([m EXCEPT !.currentTracking = FreshTracking], P_f, TRUE)

\* the catch and the finally block of _createReactiveUpdate, given what
\* updateFn did: an error is caught, and the dependencies set is made
\* current, which holds what was recorded before render threw
finallyTracking(r, dependencies) ==
    IF r.m.exc
    THEN [r EXCEPT !.m = [Caught(r.m) EXCEPT !.currentTracking = dependencies],
                   !.threw = "error"]
    ELSE r

\* _createReactiveUpdate for a function that reads f, renders { name: props }
\* and reads b
runBinding(m, name, props) ==
    finallyTracking(afterRenderComponent(renderComponent(Scoped(m), name, props)),
                    Scoped(m).currentTracking)

\* the binding ran and its function got the element r.el from render
BindingRan(r, name) ==
    Return(r.m, [Op("binding", <<>>, Undefined, name) EXCEPT !.element = r.el])

\* a reactive binding is created whose function renders a component
RunBinding ==
    \E c \in ScopeInputs :
        /\ Instances(components) < MaxInstances
        /\ BindingRan(runBinding(Manager, c.name, c.props), c.name)

NextScope ==
    \/ RunBinding
    \/ Settle
    \/ CallSetState

SpecScope == InitScope /\ [][NextScope]_vars

-----------------------------------------------------------------------------
(* The calls of an application that batches its writes with executeBatch *)

InitBatch ==
    /\ app = "batch"
    /\ renderer = NewRenderer("fine-grained")
    /\ Constructed

\* the steps of executeBatch that can be taken: a call, or the settling of
\* a pending thenable
BatchSteps ==
    {CallOf(cb) : cb \in BatchCallbacks}
        \cup {SettleOf(batches.pending[i], i) : i \in 1..Len(batches.pending)}

\* juris.executeBatch(callback), or the then or .catch callback it attached
ExecuteBatch ==
    \E s \in BatchSteps :
        /\ s.kind = "call" => Len(batches.pending) < MaxPending
        /\ Return(executeBatch(Manager, s, 1),
                  [Op(s.kind, P_x, Written(s.cb), s.cb) EXCEPT !.element = s.i])

NextBatch ==
    \/ ExecuteBatch
    \/ CallSubscribe
    \/ CallSubscribeInternal
    \/ CallBeginBatch

SpecBatch == InitBatch /\ [][NextBatch]_vars

-----------------------------------------------------------------------------
(* The calls of an application that constructs the manager with an initial *)
(* state and resets it                                                     *)

\* the initialState arguments: {}, {x: 1}, {x: NaN}, {x: undefined},
\* {x: null}, {a: {b: 1}}
InitialStates ==
    {EmptyObj,
     WriteTree(EmptyObj, getPathParts(P_x), N1),
     WriteTree(EmptyObj, getPathParts(P_x), NaN),
     WriteTree(EmptyObj, getPathParts(P_x), Undefined),
     WriteTree(EmptyObj, getPathParts(P_x), Null),
     WriteTree(EmptyObj, getPathParts(P_ab), N1)}

InitReset ==
    /\ app = "reset"
    /\ renderer = NewRenderer("fine-grained")
    /\ \E tree \in InitialStates : ConstructedWith(tree)

CallReset ==
    Return(reset(Manager), Op("reset", <<>>, Undefined, ""))

NextReset ==
    \/ CallSetState
    \/ CallSubscribe
    \/ CallBeginBatch
    \/ CallReset

SpecReset == InitReset /\ [][NextReset]_vars

-----------------------------------------------------------------------------
(* The calls of an application that tracks its promises, and the event loop *)

InitAsync ==
    /\ app = "async"
    /\ renderer = NewRenderer("fine-grained")
    /\ Constructed

\* a step of the closure of createPromisify leaves t and touches nothing else
Tracker(t, o) ==
    /\ Len(t.promises) <= MaxPromises
    /\ Len(t.timers) <= MaxTimers
    /\ tracker' = t
    /\ op' = o
    /\ UNCHANGED <<state, middleware, subscribers, externalSubscribers, currentTracking,
                   isUpdating, currentlyUpdating, isBatching, batchQueue, batchedPaths,
                   renderer, components, batches, initialState, given, asyncDom, lifecycle,
                   app, held, calls, thrown>>

\* the closure when a call of the application begins
Task == [tracker EXCEPT !.log = <<>>, !.added = FALSE]

CallPromisify ==
    \E result \in Results :
        Tracker(trackingPromisify(Task, result), Op("promisify", <<>>, Undefined, result))

CallStartTracking ==
    Tracker(startTracking(Task), Op("startTracking", <<>>, Undefined, ""))

CallStopTracking ==
    Tracker(stopTracking(Task), Op("stopTracking", <<>>, Undefined, ""))

CallOnAllComplete ==
    \E callback \in Callbacks :
        Tracker(onAllComplete(Task, callback), Op("onAllComplete", <<>>, Undefined, callback))

\* the event loop runs the oldest microtask
Microtask ==
    /\ tracker.microtasks # <<>>
    /\ Tracker(finally([Task EXCEPT !.microtasks = Tail(@)], Head(tracker.microtasks)),
               Op("finally", <<>>, Undefined, ""))

\* the event loop, with no microtask left, fires the oldest timer
Timer ==
    /\ tracker.microtasks = <<>>
    /\ tracker.timers # <<>>
    /\ Tracker(timer(Task), Op("timer", <<>>, Undefined, Head(tracker.timers)))

\* with no microtask left, a pending promise settles
SettlePromise ==
    /\ tracker.microtasks = <<>>
    /\ \E promise \in 1..Len(tracker.promises) :
           /\ ~tracker.promises[promise].settled
           /\ Tracker(settlePromise(Task, promise), Op("settle", <<>>, Undefined, ""))

NextAsync ==
    \/ CallPromisify
    \/ CallStartTracking
    \/ CallStopTracking
    \/ CallOnAllComplete
    \/ Microtask
    \/ Timer
    \/ SettlePromise

SpecAsync == InitAsync /\ [][NextAsync]_vars

-----------------------------------------------------------------------------
(* The calls of an application that renders elements with thenable          *)
(* properties, and the settling of their promises                           *)

AsyncPropsInputs ==
    {[text |-> "A", title |-> "none"],
     [text |-> "B", title |-> "none"],
     [text |-> "rejectE", title |-> "none"],
     [text |-> "A", title |-> "B"],
     [text |-> "rejectE", title |-> "A"],
     [text |-> "rejectU", title |-> "A"]}

InitAsyncProps ==
    /\ app = "asyncProps"
    /\ renderer = NewRenderer("fine-grained")
    /\ Constructed

\* a step of the renderer leaves a and touches nothing else
AsyncDom(a, o) ==
    /\ asyncDom' = a
    /\ op' = o
    /\ UNCHANGED <<state, middleware, subscribers, externalSubscribers, currentTracking,
                   isUpdating, currentlyUpdating, isBatching, batchQueue, batchedPaths,
                   renderer, components, batches, initialState, given, tracker, lifecycle,
                   app, held, calls, thrown>>

\* juris.domRenderer.render({ span: asyncProps })
CallRenderAsync ==
    \E asyncProps \in AsyncPropsInputs :
        /\ Len(asyncDom.elements) < MaxElements
        /\ AsyncDom(_setupAsyncElement(asyncDom, asyncProps),
                    OpOn("renderAsync", Len(asyncDom.elements) + 1))

\* the promises of an element have all settled
SettleAsyncProps ==
    \E i \in 1..Len(asyncDom.pending) :
        AsyncDom(thenResolved([asyncDom EXCEPT !.pending =
                                  SubSeq(@, 1, i - 1) \o SubSeq(@, i + 1, Len(@))],
                              asyncDom.pending[i]),
                 OpOn("settleAsync", asyncDom.pending[i]))

\* five seconds pass: the cached resolutions are too old to be used
ElapseAsync ==
    /\ \E i \in 1..Len(asyncDom.asyncCache) : asyncDom.asyncCache[i].fresh
    /\ AsyncDom([asyncDom EXCEPT !.asyncCache =
                     Array([i \in 1..Len(@) |-> [@[i] EXCEPT !.fresh = FALSE]])],
                Op("elapse", <<>>, Undefined, ""))

NextAsyncProps ==
    \/ CallRenderAsync
    \/ SettleAsyncProps
    \/ ElapseAsync

SpecAsyncProps == InitAsyncProps /\ [][NextAsyncProps]_vars

-----------------------------------------------------------------------------
(* The runs of a reactive text: _createReactiveUpdate runs updateText once, *)
(* and every write to a path the function read runs it again                *)

\* what textFn returns: a string, the sentinel, or a promise of a string
TextResults ==
    {[kind |-> "value", value |-> "1"], [kind |-> "value", value |-> "2"],
     [kind |-> "value", value |-> Ignore],
     [kind |-> "promise", value |-> "1"], [kind |-> "promise", value |-> "2"]}

InitText ==
    /\ app = "text"
    /\ renderer = NewRenderer("fine-grained")
    /\ Constructed

\* updateText runs
UpdateText ==
    \E result \in TextResults :
        /\ Len(asyncDom.runs) < MaxRuns
        /\ AsyncDom(updateTextWith(asyncDom, result),
                    Op("updateText", <<>>, Undefined, result.value))

\* the promise a run returned resolves
SettleText ==
    \E i \in 1..Len(asyncDom.runs) :
        /\ ~asyncDom.runs[i].settled
        /\ AsyncDom(thenText(asyncDom, i), OpOn("settleText", i))

NextText ==
    \/ UpdateText
    \/ SettleText

SpecText == InitText /\ [][NextText]_vars

-----------------------------------------------------------------------------
(* The calls of an application that renders keyed and keyless descriptions  *)
(* in batch mode: list items of one key with different texts, lists with    *)
(* identical items, a description that holds its own key again, and a page   *)
(* whose list holds the list again.                                          *)

UlOf(children) == Vnode("ul", "", NoProp, StaticChildren(children))

\* the page: a div that holds the list
Page == Vnode("div", "", NoProp, StaticChildren(<<Vnode("ul", "", NoProp, FnProp("nest"))>>))

KeyedInputs ==
    {Li("a", "1"), Li("a", "2"),
     UlOf(<<Span(StaticText("1")), Span(StaticText("1"))>>),
     UlOf(<<Span(StaticText("1")), Span(StaticText("2"))>>),
     Vnode("div", "k", NoProp,
           StaticChildren(<<Vnode("div", "", NoProp,
                                  StaticChildren(<<Vnode("div", "k", NoProp, NoProp)>>))>>)),
     Page}

InitKeyed ==
    /\ app = "keyed"
    /\ renderer = NewRenderer("batch")
    /\ Constructed

\* render returns the element r.el for the description vnode
RenderedOf(r, vnode) ==
    Return(r.m, [name |-> "render", path |-> <<>>, value |-> Undefined, callback |-> "",
                 element |-> r.el, vnode |-> vnode])

\* juris.domRenderer.render(vnode)
RenderKeyed ==
    \E vnode \in KeyedInputs :
        /\ vnode = Page => Len(renderer.bindings) < MaxBindings
        /\ RenderedOf(render(Manager, vnode), vnode)

NextKeyed ==
    \/ RenderKeyed
    \/ CallSetState

SpecKeyed == InitKeyed /\ [][NextKeyed]_vars

-----------------------------------------------------------------------------
(* The calls of an application in batch mode whose recycle pool of li is    *)
(* full: its page is a list of two items, the second of which shows a       *)
(* counter, and a longer list of RecyclePoolSize items was emptied before.   *)

\* a StateManager, renderer and component manager just constructed
Fresh ==
    [state |-> EmptyObj, middleware |-> <<>>, subscribers |-> <<>>,
     externalSubscribers |-> <<>>, currentTracking |-> NoTracking,
     isUpdating |-> FALSE, currentlyUpdating |-> {},
     isBatching |-> FALSE, batchQueue |-> <<>>, batchedPaths |-> {},
     renderer |-> NewRenderer("batch"), components |-> NewComponentManager,
     batches |-> [pending |-> <<>>, delivered |-> ""],
     initialState |-> JSONClone(EmptyObj), calls |-> <<>>, exc |-> FALSE]

\* a li that was an item of the longer list and was recycled
Pooled == [NewNode("li") EXCEPT !.key = "old"]

\* the items of the longer list went to the pool until it was full
fillPool(m) ==
    [m EXCEPT !.renderer.nodes = @ \o Array([i \in 1..RecyclePoolSize |-> Pooled]),
              !.renderer.subscriptions = @ \o Array([i \in 1..RecyclePoolSize |-> <<>>]),
              !.renderer.recyclePool =
                  @ \o Array([i \in 1..RecyclePoolSize |-> Len(m.renderer.nodes) + i])]

\* setState('l', 1), render of the page, and the emptying of the longer list
Started ==
    fillPool(render(setState(Fresh, P_l, N1, 1), Vnode("ul", "", NoProp, FnProp("items"))).m)

InitPool ==
    /\ app = "pool"
    /\ tracker = NewPromisify
    /\ asyncDom = NewAsyncDom
    /\ lifecycle = NewLifecycle
    /\ given = EmptyObj
    /\ held = {1}
    /\ calls = <<>>
    /\ thrown = FALSE
    /\ op = OpOn("render", 1)
    /\ \E m \in {Started} :
           /\ state = m.state
           /\ middleware = m.middleware
           /\ subscribers = m.subscribers
           /\ externalSubscribers = m.externalSubscribers
           /\ currentTracking = m.currentTracking
           /\ isUpdating = m.isUpdating
           /\ currentlyUpdating = m.currentlyUpdating
           /\ isBatching = m.isBatching
           /\ batchQueue = m.batchQueue
           /\ batchedPaths = m.batchedPaths
           /\ renderer = m.renderer
           /\ components = m.components
           /\ batches = m.batches
           /\ initialState = m.initialState

\* the call returned leaving the manager as m, with at most MaxClosures
\* closures made for the items of the list
PoolReturn(m, o) ==
    /\ Len(m.renderer.bindings) <= MaxClosures
    /\ Returned(m, o)

\* juris.setState(path, value)
PoolSetState ==
    \E w \in WriteInputs(app) :
        PoolReturn(setState(Manager, w.path, w.value, 1), Op("setState", w.path, w.value, ""))

\* juris.domRenderer.render({li: {key: 'c', text: '3'}}): the li comes from the pool
PoolRender ==
    \E r \in {render(Manager, Li("c", "3"))} : PoolReturn(r.m, OpOn("render", r.el))

NextPool ==
    \/ PoolSetState
    \/ PoolRender

SpecPool == InitPool /\ [][NextPool]_vars

-----------------------------------------------------------------------------
(* The calls of an application that renders lifecycle components and cleans *)
(* their elements up, and the ticks of the event loop.                       *)

InitLifecycle ==
    /\ app = "lifecycle"
    /\ renderer = NewRenderer("fine-grained")
    /\ Constructed

\* the call returned leaving the lifecycle components as c
Lifecycle(c, o) ==
    /\ lifecycle' = c
    /\ op' = o
    /\ UNCHANGED <<state, middleware, subscribers, externalSubscribers, currentTracking,
                   isUpdating, currentlyUpdating, isBatching, batchQueue, batchedPaths,
                   renderer, components, batches, initialState, given, tracker, asyncDom,
                   app, held, calls, thrown>>

\* juris.domRenderer.render({Name: {}}) for a component with lifecycle hooks
CallRenderLifecycle ==
    \E hooks \in SUBSET Hooks \ {{}}, rendered \in BOOLEAN :
        /\ lifecycle.elements < MaxInstances
        /\ Lifecycle(_createLifecycleComponent(lifecycle, hooks, rendered),
                     OpOn("render", IF rendered THEN lifecycle.elements + 1 ELSE 0))

\* juris.domRenderer.cleanup(element), once for an element
CallCleanupLifecycle ==
    \E element \in 1..lifecycle.elements :
        /\ \A i \in 1..Len(lifecycle.log) :
               ~(lifecycle.log[i].hook = "cleanup" /\ lifecycle.log[i].element = element)
        /\ Lifecycle(cleanupInstance(lifecycle, element), OpOn("cleanup", element))

\* the event loop runs the oldest timer
MountTick ==
    /\ lifecycle.timers # <<>>
    /\ Lifecycle(mountTimer([lifecycle EXCEPT !.timers = Tail(@)], Head(lifecycle.timers)),
                 OpOn("timer", Head(lifecycle.timers).element))

NextLifecycle ==
    \/ CallRenderLifecycle
    \/ CallCleanupLifecycle
    \/ MountTick

SpecLifecycle == InitLifecycle /\ [][NextLifecycle]_vars

-----------------------------------------------------------------------------
(* Vocabulary of the properties *)

\* the subscriber invocations of a log (middleware invocations left out)
SubscriberCalls(cs) == SelectSeq(cs, LAMBDA e : e.kind # "mw")

\* how often the log shows a subscriber of the kind, registered on path via, run callback cb
Invocations(cs, kind, via, cb) ==
    Len(SelectSeq(cs, LAMBDA e : e.kind = kind /\ e.via = via /\ e.cb = cb))

\* how many subscriptions of a list are registered on path with callback cb
Registered(subscriptions, path, cb) ==
    Len(SelectSeq(subscriptions, LAMBDA s : s.path = path /\ s.callback = cb))

\* path c lies strictly below path s in the tree
ProperDescendant(c, s) ==
    LET pc == getPathParts(c)
        ps == getPathParts(s)
    IN  Len(ps) < Len(pc) /\ SubSeq(pc, 1, Len(ps)) = ps

\* no update is in progress: the re-entrancy guards are released
GuardsFree == ~isUpdating /\ currentlyUpdating = {}

\* the callback is registered, as a binding or as a listener
IsRegistered(cb) ==
    \/ \E i \in 1..Len(subscribers) : SeqHas(subscribers[i].subs, cb)
    \/ \E i \in 1..Len(externalSubscribers) :
           \E j \in 1..Len(externalSubscribers[i].subs) :
               externalSubscribers[i].subs[j].callback = cb

\* no registered subscriber writes to the state / throws
NoSetter == ~IsRegistered("setX")
NoThrower == ~IsRegistered("boom")

-----------------------------------------------------------------------------
(* C1 *)

\* C1: with no batch active (and no middleware), the second of two consecutive
\* setState(p, v) calls on a valid path p is a no-op: it does not mutate the
\* tree and invokes no subscriber, so that the two calls together invoke each
\* subscriber of p at most once.
C1_IdempotentWrite ==
    [][ ( /\ op.name = "setState" /\ op'.name = "setState"
          /\ op'.path = op.path /\ op'.value = op.value
          /\ isValidPath(op.path)
          /\ ~isBatching /\ middleware = <<>> /\ ~thrown )
        => ( state' = state /\ SubscriberCalls(calls') = <<>> ) ]_vars

-----------------------------------------------------------------------------
(* C2 *)

\* C2: a non-batched write to "a.c" invokes no subscriber of "a.b"; a
\* non-batched write to "a.b.c" that changes the tree invokes every
\* hierarchical subscriber of "a.b" (internal binding or hierarchical listener)
\* and every exact subscriber of "a.b.c".
C2_PathIsolation ==
    [][ ( op'.name = "setState" /\ ~isBatching /\ GuardsFree )
        => LET cs == calls'
               ext == Subscriptions(externalSubscribers)
           IN  /\ op'.path = P_ac => \A i \in 1..Len(cs) : cs[i].via # P_ab
               /\ (op'.path = P_abc /\ state' # state) =>
                    /\ \A cb \in CallbackInputs :
                         SeqHas(MapGet(subscribers, P_ab), cb)
                             => Invocations(cs, "int", P_ab, cb) >= 1
                    /\ \A i \in 1..Len(ext) :
                         (ext[i].path = P_ab /\ ext[i].hierarchical)
                             => Invocations(cs, "ext", P_ab, ext[i].callback) >= 1
                    /\ \A i \in 1..Len(ext) :
                         (ext[i].path = P_abc /\ ~ext[i].hierarchical)
                             => Invocations(cs, "ext", P_abc, ext[i].callback) >= 1 ]_vars

-----------------------------------------------------------------------------
(* C3 *)

\* C3: after beginBatch(); setState('x', 1); setState('x', 2); endBatch (the
\* queue then holds the one write x := 2), with x not already 2, every
\* subscriber of x is invoked exactly once and every invocation observes
\* x = 2 (no subscriber writes to the state itself).
C3_BatchCoalescing ==
    [][ ( /\ op'.name = "endBatch" /\ isBatching
          /\ op = Op("setState", P_x, N2, "")
          /\ batchQueue = <<W(P_x, N2)>>
          /\ middleware = <<>> /\ GuardsFree /\ NoSetter
          /\ getState(state, P_x, Null) # N2 )
        => LET cs == SubscriberCalls(calls')
               ext == Subscriptions(externalSubscribers)
           IN  /\ \A cb \in CallbackInputs :
                     /\ Invocations(cs, "int", P_x, cb) =
                            (IF SeqHas(MapGet(subscribers, P_x), cb) THEN 1 ELSE 0)
                     /\ Invocations(cs, "ext", P_x, cb) = Registered(ext, P_x, cb)
               /\ \A i \in 1..Len(cs) : getState(cs[i].tree, P_x, Null) = N2 ]_vars

-----------------------------------------------------------------------------
(* C4 *)

\* C4: a setState issued by a middleware on the path being transformed is
\* dropped: with no subscriber installed, no middleware ever runs inside a
\* nested setState call.
C4_CycleGuard ==
    ( op.name = "setState" /\ subscribers = <<>> /\ externalSubscribers = <<>> )
        => \A i \in 1..Len(calls) : calls[i].kind = "mw" => calls[i].depth = 1

-----------------------------------------------------------------------------
(* C5 *)

\* C5: a setState call made while a batch is active neither changes the state
\* tree nor invokes any callback nor touches the subscription registries; it
\* leaves the batch active and at most places its write at the end of the
\* batch queue.
C5_BatchedSetStateOnlyQueues ==
    [][ ( op'.name = "setState" /\ isBatching )
        => LET pth == op'.path
           IN  /\ state' = state
               /\ calls' = <<>>
               /\ ~thrown'
               /\ isBatching'
               /\ subscribers' = subscribers
               /\ externalSubscribers' = externalSubscribers
               /\ \/ batchQueue' = batchQueue
                  \/ /\ batchQueue'[Len(batchQueue')] = W(pth, op'.value)
                     /\ SubSeq(batchQueue', 1, Len(batchQueue') - 1) =
                            SelectSeq(batchQueue, LAMBDA u : u.path # pth) ]_vars

\* C5 witness: a write that would have changed the tree and notified a
\* listener sits in the queue of an active batch
C5_Witness ==
    /\ op.name = "setState" /\ isBatching
    /\ batchQueue # <<>>
    /\ batchQueue[Len(batchQueue)] = W(op.path, op.value)
    /\ MapHas(externalSubscribers, op.path)
    /\ getState(state, op.path, Null) # op.value

-----------------------------------------------------------------------------
(* C6 *)

\* the queued write changes the value its path holds
Changes(tree, u) == ~deepEquals(getState(tree, u.path, Null), u.value)

\* path q is the path of a queued write that changes the tree, or an ancestor of one
Affected(tree, queue, q) ==
    \E i \in 1..Len(queue) :
        /\ Changes(tree, queue[i])
        /\ (q = queue[i].path \/ ProperDescendant(queue[i].path, q))

\* C6: endBatch applies every queued write before it invokes any subscriber
\* (every subscriber runs on the final tree), and invokes the subscribers of
\* each affected path exactly once for that path (no middleware installed,
\* no subscriber writing to the state itself).
C6_EndBatchSingleWave ==
    [][ ( /\ op'.name = "endBatch" /\ isBatching /\ batchQueue # <<>>
          /\ middleware = <<>> /\ GuardsFree /\ NoSetter )
        => LET cs == SubscriberCalls(calls')
               ext == Subscriptions(externalSubscribers)
               int == InternalSubscriptions(subscribers)
               final == state'
           IN  /\ \A i \in 1..Len(cs) : cs[i].tree = final
               /\ \A i \in 1..Len(int) :
                      Affected(state, batchQueue, int[i].path)
                          => Invocations(cs, "int", int[i].path, int[i].callback) = 1
               /\ \A i \in 1..Len(ext) :
                      Affected(state, batchQueue, ext[i].path)
                          => Invocations(cs, "ext", ext[i].path, ext[i].callback)
                                 = Registered(ext, ext[i].path, ext[i].callback) ]_vars

-----------------------------------------------------------------------------
(* C7 *)

\* the log shows the listener s invoked
Invoked(cs, s) ==
    \E i \in 1..Len(cs) :
        /\ cs[i].kind = "ext" /\ cs[i].via = s.path
        /\ cs[i].cb = s.callback /\ cs[i].hierarchical = s.hierarchical

\* C7: when one write to path c changes the tree, applied by a non-batched
\* setState or by the endBatch of a batch holding that one write, a listener
\* registered on s is invoked exactly when c = s, or c is a proper descendant
\* of s and the listener is hierarchical (no subscriber throws).
C7_ExternalMatching ==
    [][ ( /\ GuardsFree /\ NoThrower /\ state' # state
          /\ \/ op'.name = "setState" /\ ~isBatching
             \/ op'.name = "endBatch" /\ isBatching /\ Len(batchQueue) = 1 )
        => LET c == IF op'.name = "setState" THEN op'.path ELSE batchQueue[1].path
               cs == calls'
               ext == Subscriptions(externalSubscribers)
           IN  \A i \in 1..Len(ext) :
                   Invoked(cs, ext[i]) <=>
                       \/ c = ext[i].path
                       \/ ProperDescendant(c, ext[i].path) /\ ext[i].hierarchical ]_vars

-----------------------------------------------------------------------------
(* C8 *)

\* C8: a subscriber of x that calls setState('x', 1) while it is notified of
\* the change of x to 2 has its write dropped: x is 2 when the outer call
\* returns, whether the change was applied by setState or by endBatch.
C8_ReentrantWriteDropped ==
    [][ ( /\ IsRegistered("setX") /\ NoThrower /\ GuardsFree /\ middleware = <<>>
          /\ getState(state, P_x, Null) # N2
          /\ \/ op' = Op("setState", P_x, N2, "") /\ ~isBatching
             \/ op'.name = "endBatch" /\ isBatching /\ batchQueue = <<W(P_x, N2)>> )
        => getState(state', P_x, Null) = N2 ]_vars

-----------------------------------------------------------------------------
(* C9 *)

\* C9: a non-batched setState that changes the tree does not throw, and it
\* invokes every binding and every listener registered on the written path,
\* whatever the other subscribers of the wave do (throwing included).
C9_SubscriberErrorsIsolated ==
    [][ ( /\ op'.name = "setState" /\ ~isBatching /\ GuardsFree
          /\ middleware = <<>> /\ NoSetter /\ state' # state )
        => LET cs == calls'
               pth == op'.path
               ext == Subscriptions(externalSubscribers)
           IN  /\ ~thrown'
               /\ \A cb \in CallbackInputs :
                      SeqHas(MapGet(subscribers, pth), cb)
                          => Invocations(cs, "int", pth, cb) = 1
               /\ \A i \in 1..Len(ext) : ext[i].path = pth => Invoked(cs, ext[i]) ]_vars

-----------------------------------------------------------------------------
(* C10 *)

\* what each middleware function of the application returns for a value
\* (undefined stands for "no replacement", which is also what a function
\* that throws leaves behind)
Returns(fn, v) ==
    CASE fn = "toN1" -> N1
      [] fn = "bump" -> IF v = N1 THEN N2 ELSE Undefined
      [] OTHER -> Undefined

\* the value the i-th middleware must receive when the list mws is run on v
RECURSIVE Received(_, _, _)
Received(mws, v, i) ==
    IF i = 1 THEN v
    ELSE LET prev == Received(mws, v, i - 1)
             ret == Returns(mws[i - 1], prev)
         IN  IF ret # Undefined THEN ret ELSE prev

-----------------------------------------------------------------------------
(* The vocabulary of the properties of a rendered page *)

\* the bindings made for a function of the application
BindingsOf(fn) == {b \in 1..Len(renderer.bindings) : renderer.bindings[b].fn = fn}

\* the paths on which the callback is registered as an internal subscriber
RegisteredPaths(map, cb) ==
    {map[i].path : i \in {j \in 1..Len(map) : SeqHas(map[j].subs, cb)}}

\* the runs of a binding that the log of a call shows
Runs(cs, b) == SelectSeq(cs, LAMBDA e : e.kind = "int" /\ e.cb = BindingName(b))

-----------------------------------------------------------------------------
(* C11 *)

\* C11: a binding that reads a when the flag is true and b otherwise, and that
\* was re-run after the flag became false (the flag is false and the binding
\* is registered on both a and b), is re-run by every call that changes b:
\* the call runs the binding on a tree that holds the new value of b.
C11_Resubscribed ==
    [][\A b \in BindingsOf("cond") :
          (/\ ~Truthy(getState(state, P_f, Null))
           /\ {P_a, P_b} \subseteq RegisteredPaths(subscribers, BindingName(b))
           /\ getState(state', P_b, Null) # getState(state, P_b, Null))
          => \E i \in 1..Len(calls') :
                 /\ calls'[i].kind = "int"
                 /\ calls'[i].cb = BindingName(b)
                 /\ getState(calls'[i].tree, P_b, Null) = getState(state', P_b, Null)]_vars

-----------------------------------------------------------------------------
(* C12 *)

\* the paths the function of binding b reads when it runs on the tree
PathsRead(b, tree) ==
    LET c == renderer.bindings[b]
        m == [Manager EXCEPT !.state = tree, !.currentTracking = FreshTracking]
    IN  IF c.kind = "text"
        THEN {TextFn(c.fn, m).m.currentTracking.paths[i] :
                 i \in 1..Len(TextFn(c.fn, m).m.currentTracking.paths)}
        ELSE {ChildrenFn(c.fn, m).m.currentTracking.paths[i] :
                 i \in 1..Len(ChildrenFn(c.fn, m).m.currentTracking.paths)}

\* the last entry of a non-empty list
Last(seq) == seq[Len(seq)]

\* C12: after a call in which a binding was re-run, the paths on which the
\* binding is registered as an internal subscriber are exactly the paths its
\* function read in the latest of those runs.
C12_SubscriptionsAreLatestReads ==
    \A b \in 1..Len(renderer.bindings) :
        Runs(calls, b) # <<>>
        => RegisteredPaths(subscribers, BindingName(b)) = PathsRead(b, Last(Runs(calls, b)).tree)

-----------------------------------------------------------------------------
(* C16 *)

\* the element and everything below it
RECURSIVE Subtree(_, _)
Subtree(nodes, element) ==
    {element} \cup UNION {Subtree(nodes, nodes[element].children[i]) :
                              i \in 1..Len(nodes[element].children)}

\* C16: when cleanup(element) has returned, no binding made for the element or
\* for one of its descendants is registered as an internal subscriber on any
\* path, whether the binding read the path in its first run or in a later one.
C16_CleanupUnsubscribesAll ==
    op.name = "cleanup"
    => \A b \in 1..Len(renderer.bindings) :
           renderer.bindings[b].element \in Subtree(renderer.nodes, op.element)
           => RegisteredPaths(subscribers, BindingName(b)) = {}

-----------------------------------------------------------------------------
(* C13 *)

\* C13: for an element rendered with a text function that reads the counter,
\* and not cleaned up since, every call in which a setState changes the value
\* of the counter leaves the text of that same element equal to the text form
\* of the new value.
C13_ReactiveText ==
    [][\A b \in BindingsOf("count") :
          (/\ P_x \in RegisteredPaths(subscribers, BindingName(b))
           /\ getState(state', P_x, Null) # getState(state, P_x, Null))
          => /\ renderer'.bindings[b].element = renderer.bindings[b].element
             /\ renderer'.nodes[renderer.bindings[b].element].text
                    = ToText(getState(state', P_x, Null))]_vars

-----------------------------------------------------------------------------
(* C14 *)

\* the keys of a list of element descriptions, and of the children of an element
VnodeKeys(list) == [i \in 1..Len(list) |-> list[i].key]
ChildKeys(nodes, element) ==
    [i \in 1..Len(nodes[element].children) |-> nodes[nodes[element].children[i]].key]

\* the set of the members of a list
Range(seq) == {seq[i] : i \in 1..Len(seq)}

\* the child of the element that carries the key
ChildOfKey(nodes, element, key) ==
    CHOOSE c \in Range(nodes[element].children) : nodes[c].key = key

\* the list the children function of binding b returned in its latest run
LatestList(cs, b) ==
    ChildrenFn(renderer.bindings[b].fn, [Manager EXCEPT !.state = Last(Runs(cs, b)).tree]).list

\* the call re-runs children binding b, made in batch mode, on a list with the
\* keys its element shows, in another order
Reorders(b) ==
    /\ renderer.renderMode = "batch"
    /\ renderer.bindings[b].kind = "optimized"
    /\ Runs(calls', b) # <<>>
    /\ Len(LatestList(calls', b)) = Len(renderer.nodes[renderer.bindings[b].element].children)
    /\ Range(VnodeKeys(LatestList(calls', b)))
           = Range(ChildKeys(renderer.nodes, renderer.bindings[b].element))
    /\ VnodeKeys(LatestList(calls', b)) # ChildKeys(renderer.nodes, renderer.bindings[b].element)

\* C14: in batch mode, when a children binding re-renders its keyed list with
\* the same keys in another order, the children of the parent afterwards are
\* the nodes that carried those keys before, in the new order.
C14_KeyedReuse ==
    [][\A b \in 1..Len(renderer.bindings) :
          Reorders(b)
          => renderer'.nodes[renderer.bindings[b].element].children
                 = [i \in 1..Len(LatestList(calls', b)) |->
                       ChildOfKey(renderer.nodes, renderer.bindings[b].element,
                                  LatestList(calls', b)[i].key)]]_vars

-----------------------------------------------------------------------------
(* C19 *)

\* the function of binding b throws when it runs on the tree
Throws(b, tree) ==
    LET c == renderer.bindings[b]
        m == [Manager EXCEPT !.state = tree]
    IN  IF c.kind = "text" THEN TextFn(c.fn, m).threw ELSE ChildrenFn(c.fn, m).threw

\* the call re-ran bindings, and the function threw in every one of those runs
OnlyThrowingRuns(cs) ==
    /\ \E i \in 1..Len(cs) : cs[i].kind = "int" /\ IsBinding(Manager, cs[i].cb)
    /\ \A i \in 1..Len(cs) :
           cs[i].kind = "int" /\ IsBinding(Manager, cs[i].cb)
           => Throws(BindingOf(Manager, cs[i].cb), cs[i].tree)

\* C19: a call whose only re-runs of bindings are runs in which the binding's
\* function throws, in either render mode, does not throw to its caller and
\* leaves every element as it was: same children, same text.
C19_ThrowingBindingKeepsDom ==
    [][OnlyThrowingRuns(calls') /\ op'.name \in {"setState", "endBatch"}
       => ~thrown' /\ renderer'.nodes = renderer.nodes]_vars

-----------------------------------------------------------------------------
(* C15 *)

\* the position of the child among the children of its parent
PositionOf(nodes, child) ==
    CHOOSE i \in 1..Len(nodes[nodes[child].parent].children) :
        nodes[nodes[child].parent].children[i] = child

\* the call is the settling of the pending entry p of a component with a
\* promise among its props
SettlesProps(p) ==
    /\ op'.name = "settle"
    /\ op'.element = p.placeholder
    /\ p.kind \in {"props", "cached"}

\* the call is the rendering of a component with a promise among its props
RendersAsyncProps ==
    /\ op'.name = "render"
    /\ Len(components'.pending) = Len(components.pending) + 1
    /\ Last(components'.pending).kind \in {"props", "cached"}

\* C15: rendering a component with a promise as a prop returns a placeholder
\* at once; when the promise has settled, a placeholder that is still
\* attached has been replaced, at its place, by the element of the component
\* built with the value this promise resolved to.
C15_AsyncPropResolution ==
    [][/\ RendersAsyncProps
          => /\ op'.element = Last(components'.pending).placeholder
             /\ renderer'.nodes[op'.element].text = LoadingText
       /\ \A i \in 1..Len(components.pending) :
              (/\ SettlesProps(components.pending[i])
               /\ components.pending[i].name = "Show"
               /\ renderer.nodes[components.pending[i].placeholder].parent # 0)
              => LET old == components.pending[i].placeholder
                     parent == renderer.nodes[old].parent
                     new == renderer'.nodes[parent].children[PositionOf(renderer.nodes, old)]
                 IN  /\ new # old
                     /\ renderer'.nodes[new].tag = "span"
                     /\ renderer'.nodes[new].text
                            = ToText(components.pending[i].props.value.val)]_vars

-----------------------------------------------------------------------------
(* C17 *)

\* the state tree holds something at the path
Exists(tree, path) == getPathParts(path) \in DOMAIN tree

\* C17: when cleanup has run for the element that backs a component instance,
\* none of the local-state paths the instance created through newState, at
\* set-up or later, exists in the state tree.
C17_CleanupDeletesLocalState ==
    op.name = "cleanup"
    => \A set \in 1..Len(components.sets) :
           components.sets[set].element = op.element
           => \A i \in 1..Len(components.sets[set].paths) :
                  ~Exists(state, components.sets[set].paths[i])

-----------------------------------------------------------------------------
(* C18 *)

\* the component function of the instance throws, or returns a promise that
\* rejects
Fails(props) == props.mode \in {"throw", "throwUndefined", "reject", "rejectUndefined"}

\* the element shows the inline error
IsErrorElement(nodes, element) == element # 0 /\ nodes[element].text = ErrorText

\* the call renders a component whose function throws
RendersThrowing ==
    /\ op'.name = "render"
    /\ Len(components'.sets) = Len(components.sets) + 1
    /\ Last(components'.sets).props.mode \in {"throw", "throwUndefined"}

\* the call settles the pending entry p, and an exception is thrown while the
\* component function runs or its promise is awaited
SettlesFailing(p) ==
    /\ op'.name = "settle"
    /\ op'.element = p.placeholder
    /\ Fails(p.props)

\* C18: an exception thrown by a component function, or the rejection of the
\* promise it returned, never reaches the caller of render: on the
\* synchronous path render returns an error element, and after a promise has
\* settled the placeholder, if attached, has been replaced at its place by an
\* error element.
C18_ComponentErrorsContained ==
    [][/\ op'.name \in {"render", "settle"} => ~thrown'
       /\ RendersThrowing => IsErrorElement(renderer'.nodes, op'.element)
       /\ \A i \in 1..Len(components.pending) :
              (/\ SettlesFailing(components.pending[i])
               /\ renderer.nodes[components.pending[i].placeholder].parent # 0)
              => IsErrorElement(renderer'.nodes,
                     renderer'.nodes[renderer.nodes[components.pending[i].placeholder].parent]
                         .children[PositionOf(renderer.nodes, components.pending[i].placeholder)])]_vars


-----------------------------------------------------------------------------
(* C20 *)

\* what executeBatch gives its caller when callback cb returned, threw or
\* settled: the result, or the error thrown or rejected with
OutcomeOf(cb) == IF cb \in {"writeThrow", "asyncReject"} THEN "E" ELSE "value"

\* the writes queued in the batch are in the state tree
QueueApplied(queue, tree) ==
    \A k \in 1..Len(queue) : getState(tree, queue[k].path, Null) = queue[k].value

\* executeBatch(cb) called when no batch is active, cb returning or throwing:
\* the batch is ended, its writes are applied, and the caller gets the result
\* or the error thrown
SyncBatchEnds ==
    ~isBatching /\ op'.name = "call" /\ ~Thenable(op'.callback)
    => /\ ~isBatching'
       /\ batchQueue' = <<>>
       /\ getState(state', P_x, Null) = op'.value
       /\ batches'.delivered = OutcomeOf(op'.callback)
       /\ thrown' = Throwing(op'.callback)

\* executeBatch(cb) called when no batch is active, cb returning a thenable:
\* batching stays active, the write of cb is queued and not applied
AsyncBatchStaysActive ==
    ~isBatching /\ op'.name = "call" /\ Thenable(op'.callback)
    => /\ isBatching'
       /\ batchQueue' = <<[path |-> P_x, value |-> op'.value]>>
       /\ state' = state
       /\ ~thrown'

\* the thenable of an executeBatch call that began the batch settles: the
\* batch is ended, the writes queued are applied, and the promise the caller
\* holds resolves, or rejects with the rejection of the thenable
SettledBatchEnds ==
    op'.name = "settle" /\ batches.pending[op'.element].owner /\ isBatching
    => /\ ~isBatching'
       /\ batchQueue' = <<>>
       /\ QueueApplied(batchQueue, state')
       /\ batches'.delivered = OutcomeOf(op'.callback)

\* executeBatch(cb) called while a batch is active: cb is invoked, its write
\* is queued in the active batch, which is not ended, and nothing is applied
InlineKeepsBatch ==
    isBatching /\ op'.name = "call"
    => /\ isBatching'
       /\ state' = state
       /\ \E k \in 1..Len(batchQueue') :
              batchQueue'[k] = [path |-> P_x, value |-> op'.value]
       /\ batches'.delivered = IF Thenable(op'.callback) THEN "promise"
                               ELSE OutcomeOf(op'.callback)
       /\ thrown' = Throwing(op'.callback)

\* C20: executeBatch(cb) called when no batch is active keeps batching active
\* while cb runs and, for a thenable result, until the thenable settles; when
\* cb returns, throws, resolves or rejects, the batch is ended, the writes
\* queued in it are applied, batching is inactive, and the error thrown or
\* rejected with reaches the caller.  Called while a batch is active, it only
\* invokes cb and does not end the batch.
C20_ExecuteBatchEndsItsBatch ==
    [][SyncBatchEnds /\ AsyncBatchStaysActive /\ SettledBatchEnds /\ InlineKeepsBatch]_vars


-----------------------------------------------------------------------------
(* C21 *)

\* the paths an application reads
ReadPaths == {P_x, P_a, P_ab, P_abc}

\* C21: reset() leaves batching inactive with an empty queue, makes
\* getState(p) return the value the state had at construction for every path
\* p, invokes no subscriber and leaves the subscription registries unchanged.
C21_ResetRestores ==
    [][op'.name = "reset"
       => /\ ~isBatching'
          /\ batchQueue' = <<>>
          /\ \A p \in ReadPaths : getState(state', p, Null) = getState(given, p, Null)
          /\ calls' = <<>>
          /\ subscribers' = subscribers
          /\ externalSubscribers' = externalSubscribers]_vars


-----------------------------------------------------------------------------
(* C22 *)

\* the empty path, a whitespace-only path and paths with ".."
InvalidPaths == {<<>>, P_blank, <<" ", " ">>, P_dotdot, <<".", ".">>}

-----------------------------------------------------------------------------
(* C23 *)

\* C23: while tracking is on, promisify(x) adds its promise to activePromises
\* if and only if x is a thenable; for a plain value it returns a promise
\* that is resolved already and adds nothing.
C23_OnlyThenablesTracked ==
    [][op'.name = "promisify" /\ tracker.isTracking
       => /\ tracker'.added <=> HasThen(op'.callback)
          /\ ~HasThen(op'.callback)
                 => /\ tracker'.promises[Len(tracker'.promises)].settled
                    /\ tracker'.activePromises = tracker.activePromises]_vars


-----------------------------------------------------------------------------
(* C24 *)

\* C24: a callback registered with onAllComplete is invoked only at a moment
\* when activePromises is empty and no promise that passed through promisify
\* under tracking is pending, also when it was registered with none
\* outstanding and such a promise was started before the timer fired; and
\* when the finally reaction of the last tracked promise has run with a
\* callback registered, a timer waits that will invoke it.
C24_BarrierOnlyWhenNoneOutstanding ==
    /\ \A i \in 1..Len(tracker.log) :
           tracker.log[i].outstanding = 0 /\ tracker.log[i].pending = 0
    /\ op.name = "finally" /\ tracker.activePromises = {} /\ tracker.subscribers # <<>>
           => SeqHas(tracker.timers, "checkAllComplete")


-----------------------------------------------------------------------------
(* C25 *)

\* the paths a setState call of the application or of one of its callbacks
\* writes to
WrittenPaths(o) == {o.path, P_x, P_b}

\* the value at path q differs between the two trees
ChangedAt(before, after, q) ==
    ~deepEquals(getState(before, q, Undefined), getState(after, q, Undefined))

\* the log shows every binding and every listener registered on q invoked
SubscribersInvoked(cs, q) ==
    /\ \A i \in 1..Len(subscribers) :
           subscribers[i].path = q
               => \A j \in 1..Len(subscribers[i].subs) :
                      Invocations(cs, "int", q, subscribers[i].subs[j]) > 0
    /\ \A i \in 1..Len(externalSubscribers) :
           externalSubscribers[i].path = q
               => \A j \in 1..Len(externalSubscribers[i].subs) :
                      Invocations(cs, "ext", q, externalSubscribers[i].subs[j].callback) > 0

\* C25: a non-batched setState call that returns has invoked the subscribers
\* of every path whose value a setState changed during it: of its own path,
\* and of the path a subscriber callback wrote to with a setState of its own
\* while the notification was in progress.
C25_EveryWriteNotifies ==
    [][op'.name = "setState" /\ ~isBatching /\ ~isUpdating /\ ~thrown'
           => \A q \in WrittenPaths(op') :
                  ChangedAt(state, state', q) => SubscribersInvoked(calls', q)]_vars


-----------------------------------------------------------------------------
(* C26 *)

\* C26: between the calls of the application no update is in progress, and
\* the re-entrancy guards are released: isUpdating is false and
\* currentlyUpdating is empty, whatever the middleware functions and the
\* subscriber callbacks of the calls so far did, throwing included.
C26_GuardsReleased == GuardsFree


-----------------------------------------------------------------------------
(* C27 *)

\* the subscriber invocations a log shows for the call of the application
\* itself (those of the calls its callbacks made left out)
OwnCalls(cs) == SelectSeq(cs, LAMBDA e : e.kind # "mw" /\ e.depth = 1)

\* the place of an invocation in the order of one setState on path p: the
\* bindings of p, of its ancestors from the nearest to the root, of the
\* paths below p, then the listeners
Rank(e, p) ==
    LET parts == getPathParts(p)
        via == getPathParts(e.via)
    IN  CASE e.kind = "ext" -> Len(parts) + 1
          [] e.via = p -> 0
          [] Len(via) < Len(parts) /\ SubSeq(parts, 1, Len(via)) = via -> Len(parts) - Len(via)
          [] OTHER -> Len(parts)

-----------------------------------------------------------------------------
(* C28 *)

\* C28: with no middleware and no batch active, for every valid path p, every
\* tree and every value v other than undefined, getState(p) after
\* setState(p, v) returns v: a segment on the way that was missing or held a
\* non-object is replaced by a fresh record.
C28_RoundTrip ==
    [][op'.name = "setState" /\ isValidPath(op'.path) /\ Tag(op'.value) # "undef"
           /\ middleware = <<>> /\ ~isBatching
           => getState(state', op'.path, Null) = op'.value]_vars


-----------------------------------------------------------------------------
(* C29 *)

\* the paths with a write waiting in the queue
QueuedPaths(queue) == { queue[i].path : i \in 1..Len(queue) }

\* C29: a write queued during an active batch waits in the queue until the
\* batch ends: no call other than endBatch, clearBatch and reset takes it out,
\* and a beginBatch issued while the batch is active leaves the queue as it is.
C29_QueuedWritesKept ==
    [][isBatching /\ op'.name \notin {"endBatch", "clearBatch", "reset"}
           => /\ QueuedPaths(batchQueue) \subseteq QueuedPaths(batchQueue')
              /\ op'.name = "beginBatch" => batchQueue' = batchQueue]_vars


-----------------------------------------------------------------------------
(* C30 *)

\* C30: the tracking set of a reactive binding is current only while the
\* function of that binding executes: when the run ends the scope is cleared
\* or the enclosing scope restored, so between the calls of the application,
\* when no binding executes, no tracking set is current and a later read is
\* not recorded in the set of a binding that has finished.
C30_TrackingScopeEndsWithRun == ~currentTracking.active


-----------------------------------------------------------------------------
(* C31 *)

\* the paths the component functions read
ComponentPaths == {P_x, StatePath("Local_1", "k"), StatePath("Local_2", "k")}

\* C31: when a binding whose function reads f, renders a registered component
\* and reads b has run, and render returned an element (the element of the
\* component, a placeholder or an error element), the dependencies of the
\* binding are f and b: no path read by the component function is among
\* them, and the read of b after the instantiation was recorded in the scope
\* of the binding.
C31_InstantiationIsNotARead ==
    op.name = "binding" /\ ~thrown /\ op.element # 0
        => /\ currentTracking.active
           /\ currentTracking.paths = <<P_f, P_b>>
           /\ \A path \in ComponentPaths : ~SeqHas(currentTracking.paths, path)

\* a binding rendered a component whose function reads x and whose element
\* holds a reactive text of its own
C31_Witness ==
    /\ op.name = "binding" /\ op.callback = "Reader" /\ op.element # 0
    /\ renderer.bindings # <<>>
    /\ currentTracking.paths = <<P_f, P_b>>


-----------------------------------------------------------------------------
(* C32 *)

\* C32: when the function of a new component instance has called
\* newState("k", 1), the local-state path __local.<componentId>.k, which held
\* no value, holds the initial value 1.
C32_NewStateInitialises ==
    [][\A set \in 1..Len(components'.sets) :
           /\ set > Len(components.sets)
           /\ SeqHas(components'.sets[set].paths, StatePath(components'.sets[set].id, "k"))
           => getState(state', StatePath(components'.sets[set].id, "k"), Undefined) = N1]_vars


-----------------------------------------------------------------------------
(* C33 *)

\* C33: an element rendered with thenable properties whose promises have
\* settled shows, for each such property, the value its own promise resolved
\* to, or the error marker of that promise while the sibling property shows
\* its value; a cached resolution is never applied to an element rendered
\* with other promises.
C33_OwnPromisesShown ==
    \A element \in 1..Len(asyncDom.elements) :
        ~SeqHas(asyncDom.pending, element)
            => /\ asyncDom.elements[element].props.text \in {"A", "B"}
                      => asyncDom.elements[element].shown.text
                             = asyncDom.elements[element].props.text
               /\ asyncDom.elements[element].props.title \in {"A", "B"}
                      => asyncDom.elements[element].shown.title
                             = asyncDom.elements[element].props.title
               /\ asyncDom.elements[element].props.text \in {"rejectE", "rejectU"}
                      => asyncDom.elements[element].shown.text \in {"Error: E", "Error: undefined"}


-----------------------------------------------------------------------------
(* C34 *)

\* C34: when every run of a reactive text returned a promise and all the
\* promises have settled, in whatever order, the element shows the result of
\* the most recent run; the result of an earlier run does not overwrite it.
C34_LatestRunWins ==
    /\ asyncDom.runs # <<>>
    /\ \A i \in 1..Len(asyncDom.runs) :
           asyncDom.runs[i].kind = "promise" /\ asyncDom.runs[i].settled
    => asyncDom.textContent = asyncDom.runs[Len(asyncDom.runs)].value


-----------------------------------------------------------------------------
(* C39 *)

\* C39: a run of a reactive text whose function returns the sentinel "ignore"
\* leaves the textContent of the element as it was.
C39_TextSentinelSkips ==
    [][op'.name = "updateText" /\ op'.callback = Ignore
           /\ asyncDom'.runs[Len(asyncDom'.runs)].kind = "value"
           => asyncDom'.textContent = asyncDom.textContent]_vars

-----------------------------------------------------------------------------
(* C35 *)

\* the call that just returned rendered a description in batch mode
RenderedInBatch ==
    /\ op.name = "render"
    /\ "vnode" \in DOMAIN op
    /\ op.element # 0
    /\ renderer.renderMode = "batch"

\* C35: in batch mode, when a description that carries a key is rendered and
\* an element of that key exists already, the element render returns shows the
\* static text of the description just rendered, not the text of an earlier one
C35_ReusedElementPatched ==
    (RenderedInBatch /\ op.vnode.key # "" /\ op.vnode.text.kind = "static")
        => renderer.nodes[op.element].text = op.vnode.text.val

-----------------------------------------------------------------------------
(* C36 *)

\* the children of the element are the descriptions, one node each, in order
ShowsEach(nodes, element, list) ==
    /\ Len(nodes[element].children) = Len(list)
    /\ \A i \in 1..Len(list) :
           /\ nodes[nodes[element].children[i]].tag = list[i].tag
           /\ list[i].text.kind = "static"
                  => nodes[nodes[element].children[i]].text = list[i].text.val

\* C36: in batch mode, after a description whose children are n keyless
\* descriptions was rendered, the element has exactly n child nodes, in the
\* order of the descriptions, also when two of the descriptions are identical
C36_OneNodePerDescription ==
    (/\ RenderedInBatch
     /\ op.vnode.tag = "ul"
     /\ op.vnode.children.kind = "static"
     /\ \A i \in 1..Len(op.vnode.children.list) : op.vnode.children.list[i].key = "")
        => ShowsEach(renderer.nodes, op.element, op.vnode.children.list)

-----------------------------------------------------------------------------
(* C37 *)

\* the element n is met within k steps up from the element e
RECURSIVE MetAbove(_, _, _, _)
MetAbove(nodes, e, n, k) ==
    /\ e # 0
    /\ k > 0
    /\ (e = n \/ MetAbove(nodes, nodes[e].parent, n, k - 1))

\* no element is its own ancestor
Forest(nodes) ==
    \A n \in 1..Len(nodes) : ~MetAbove(nodes, nodes[n].parent, n, Len(nodes))

\* the list of the page is where render put it: in the div of the page
ListInPage(r) ==
    \A b \in 1..Len(r.bindings) :
        /\ r.nodes[r.bindings[b].element].parent # 0
        /\ r.nodes[r.nodes[r.bindings[b].element].parent].tag = "div"

\* C37: after every render and every reconciliation no element is its own
\* ancestor, and a reconciliation that skips a child because the parent lies
\* inside it does not throw and leaves the elements of the page where they
\* were: the list is still in the div it was rendered into
C37_ForestKept ==
    /\ Forest(renderer.nodes)
    /\ ~thrown
    /\ ListInPage(renderer)

-----------------------------------------------------------------------------
(* C38 *)

\* the closures of the renderer that still are subscribers of some path
Subscribed ==
    {b \in 1..Len(renderer.bindings) :
        \E i \in 1..Len(subscribers) : SeqHas(subscribers[i].subs, BindingName(b))}

\* C38: an item of the list that is in the list no more (a li without a
\* parent) was cleaned up, whether or not the pool of li had room for it: it
\* holds no subscriptions and the closure made for it is no subscriber any
\* more; and the pool of a tag never holds more than RecyclePoolSize elements
C38_UnmatchedCleanedUp ==
    /\ \A tag \in {"li", "ul"} : Len(PoolOf(Manager, tag)) <= RecyclePoolSize
    /\ \A e \in 1..Len(renderer.nodes) :
           (renderer.nodes[e].tag = "li" /\ renderer.nodes[e].parent = 0)
               => /\ renderer.subscriptions[e] = <<>>
                  /\ \A b \in Subscribed : renderer.bindings[b].element # e

-----------------------------------------------------------------------------
(* C40 *)

\* C40: onMount of a lifecycle component never runs after the element of the
\* instance was cleaned up: no onMount follows the cleanup of its element in
\* the order in which the hooks ran
C40_NoMountAfterCleanup ==
    \A i, j \in 1..Len(lifecycle.log) :
        (/\ i < j
         /\ lifecycle.log[i].hook = "cleanup"
         /\ lifecycle.log[j].element = lifecycle.log[i].element)
            => lifecycle.log[j].hook # "onMount"

=============================================================================
